---- MODULE Spec2Model ----
(***************************************************************************)
(* TRUVOICE dashboard: the capture components (MediaCapture, ScreenCapture)*)
(* with their start / stop / retry / restart discipline, the result        *)
(* aggregator of App.tsx and the session verdict of SessionSummary.        *)
(*                                                                         *)
(* The capture components share no state with each other, so SpecCapture   *)
(* analyses one of them at a time (the variable component says which).     *)
(* A React handler reads the props and state of the render it was created  *)
(* in; where the code invokes a handler from an effect with an empty (or   *)
(* never changing) dependency list, the model reads those captured values, *)
(* not the live state.                                                     *)
(***************************************************************************)
EXTENDS Integers, Sequences, FiniteSets, Bags, TLC

\* ------------------------------------------------------------------ bounds
\* getUserMedia / getDisplayMedia calls one component instance may make
MaxAttempts == 3
\* dataavailable events with a non-empty chunk
MaxChunks == 2

Attempts == 1..MaxAttempts

\* -------------------------------------------------------------- variables
VARIABLES
  component,            \* the capture component under analysis
  formatSupported,      \* MediaRecorder accepts one of the mime types tried
  phase,                \* React life cycle of the component instance
  req,                  \* attempt -> none | pending | rejected | live | ended
  recorders,            \* attempt -> none | recording | inactive
  retryTimers,          \* pending retry timeouts (named by the failed attempt)
  restartTimers,        \* number of pending restart timeouts
  \* MediaCapture (audio)
  isComponentMounted, audioRecorderRef, audioStreamRef, audioRetryTimeoutRef,
  isAudioRecording, audioError,
  \* ScreenCapture
  hasStartedRef, mediaRecorderRef, streamRef, screenRetryTimeoutRef,
  isRecording, screenError,
  \* observation of the run
  trackStopCalls,       \* attempt -> times track.stop() ran on its tracks (cap 2)
  recorderStopCalls,    \* attempt -> times recorder.stop() ran (cap 2)
  chunks,               \* non-empty chunks emitted so far
  posts,                \* POSTs to the detect endpoint issued so far
  lastOp                \* the last handler that ran, with an alternating bit

envVars    == <<component, formatSupported, phase, req, recorders, retryTimers, restartTimers>>
audioVars  == <<isComponentMounted, audioRecorderRef, audioStreamRef, audioRetryTimeoutRef,
                isAudioRecording, audioError>>
screenVars == <<hasStartedRef, mediaRecorderRef, streamRef, screenRetryTimeoutRef,
                isRecording, screenError>>
obsVars    == <<trackStopCalls, recorderStopCalls, chunks, posts, lastOp>>
captureVars == <<envVars, audioVars, screenVars, obsVars>>

VARIABLES
  \* App
  isActive, hasPermissions, isRequestingPermissions, backendStatus,
  currentData, detectionHistory, suspiciousSegments, isProcessing, currentSession,
  \* SessionSummary
  pastSessions,
  activeTab,            \* the tab App shows; SessionSummary is in the tree on 'summary'
  localStorage,         \* the sessions under the key aiDetectionSessions
  finalized,            \* startTime of the sessions stopped with a detection, in order
  \* the capture components as App renders them, and their uploads
  captureProps,         \* the props of the render that mounted them, or NoCapture
  uploads,              \* POSTs to the detect endpoint without a response yet (a bag)
  permissionQuery,      \* checkExistingPermissions has not answered yet
  toggleRequests,       \* POSTs of App to /api/toggle-recording without a response yet
  connectionRetries,    \* useState(0) of App: failed health checks since the last success
  healthChecks,         \* checkBackend calls awaiting their fetch, by the connectionRetries
                        \* of the render that made them (a bag)
  healthTimers,         \* retry timeouts of checkBackend that are armed, likewise (a bag)
  saveEffectPending,    \* the save effect of SessionSummary is due to run
  \* observation of the run
  clock,                \* Date.now(), counted in session starts
  uploadsStarted,       \* uploads issued so far
  handled               \* results handleDetectionResult took while the session was active

healthVars == <<connectionRetries, healthChecks, healthTimers>>
appStateVars == <<isActive, hasPermissions, isRequestingPermissions, backendStatus,
                  currentData, detectionHistory, suspiciousSegments, isProcessing,
                  currentSession>>
summaryVars == <<activeTab, localStorage, finalized>>
appVars == <<appStateVars, pastSessions, summaryVars, captureProps, uploads, permissionQuery,
             toggleRequests, healthVars,
             saveEffectPending,
             clock, uploadsStarted, handled>>

VARIABLES
  \* the text clients: TextAnalyzer, TestResponseDetector, the browser extension
  text,                 \* the textarea / input value, as raw length and whitespace padding
  isAnalyzing, textError,
  textResult,           \* result (detectionResults entry of the input), or NoResult
  textRequests,         \* POSTs with a text without a response yet (a bag)
  inputTimer,           \* the 2 s timeout of the extension's input listener is armed
  isEnabled,            \* let isEnabled of the content script
  aiDetectionEnabled,   \* chrome.storage.sync: the state of the popup's switch
  lastAnalysed          \* the text analyzeText last ran on or a request last carried

textVars == <<text, isAnalyzing, textError, textResult, textRequests, inputTimer,
              isEnabled, aiDetectionEnabled, lastAnalysed>>

VARIABLES
  server_isRecording,        \* let isRecording of the server
  server_detectionHistory,   \* let detectionHistory of the server
  server_suspiciousSegments, \* let suspiciousSegments of the server
  userDetectionHistory,      \* userId -> detection history (part_009)
  userSuspiciousSegments,    \* userId -> suspicious segments (part_009)
  filesBeingProcessed,       \* paths the detect handlers have registered (part_009)
  tempFiles,                 \* the paths present in the temp directory
  detects,                   \* bag of /api/detect requests between upload and response
  deleting,                  \* the DELETE /api/suspicious waiting for its unlinks, or null
  server_now,                \* Date.now() of the server
  serverBudget,              \* state-growing requests accepted so far
  toggles,                   \* POSTs to /api/toggle-recording since startup
  users,                     \* const users: email -> userId of the account (part_009)
  segmentsSinceDelete,       \* segments of suspicious detect results since the last DELETE
  cleanupScheduled,          \* a cleanupTempFiles() call whose readdir has not answered yet
  lastResponse               \* the last response the server sent, with its request

serverVars == <<server_isRecording, server_detectionHistory, server_suspiciousSegments,
                userDetectionHistory, userSuspiciousSegments, filesBeingProcessed,
                tempFiles, detects, deleting, server_now, serverBudget, toggles, users,
                segmentsSinceDelete, cleanupScheduled, lastResponse>>

vars == <<captureVars, appVars, textVars, serverVars>>

\* ---------------------------------------------------------------- helpers
Cap2(n) == IF n >= 2 THEN 2 ELSE n + 1

\* the record of the handler that runs in this step: its name, the handler before it,
\* the attempt it is about (0: none) and the error name of a failed start
Op(name, i, e) ==
  [op |-> name, prev |-> lastOp.op, bit |-> 1 - lastOp.bit, att |-> i, err |-> e]

\* the attempt a new getUserMedia / getDisplayMedia call becomes
FreeAttempts == {i \in Attempts : req[i] = "none"}
NextAttempt == CHOOSE i \in FreeAttempts : \A j \in FreeAttempts : i <= j

LiveStreams == {i \in Attempts : req[i] = "live"}
ActiveRecorders == {i \in Attempts : recorders[i] = "recording"}
PendingRequests == {i \in Attempts : req[i] = "pending"}

\* isAudioRecording as the handlers of startAudioCapture read it: the effect
\* with [] dependencies runs the startAudioCapture of the first render, whose
\* scope holds the initial useState(false) value for good.
closure_isAudioRecording == FALSE

\* isActive as the handlers of startScreenCapture read it: the effect calls
\* startScreenCapture only in its isActive branch, so the render it belongs
\* to has isActive = true.
closure_isActive == TRUE

\* ----------------------------------------------------------- App: values
\* uploads one run issues, and sessions it starts
MaxUploads == 3
MaxSessions == 2
\* detections of a session handed to SessionSummary
MaxDetections == 10
\* analyses of uploaded videos and texts add up to MaxSegments evidence entries
MaxSegments == 2

\* result.trustScore in thousandths; no value lies halfway between two percentages
TrustScores == {300, 906}
MediaTypes == {"video", "audio"}
Results == [trustScore : TrustScores, suspicious : BOOLEAN, mediaType : MediaTypes]

\* Math.round(result.trustScore * 100)
Round100(t) == (t + 5) \div 10
\* Math.round((videoScore + audioScore) / 2)
RoundHalf(n) == (n + 1) \div 2

\* JavaScript numbers that are not integers are kept as reduced fractions
RECURSIVE GCD(_, _)
GCD(a, b) == IF b = 0 THEN a ELSE GCD(b, a % b)
Frac(n, d) == [num |-> n \div GCD(n, d), den |-> d \div GCD(n, d)]
FracLess(a, b) == a.num * b.den < b.num * a.den

\* useState(null) of currentSession, and the capture components not rendered
null == [null |-> TRUE]
NoCapture == [rendered |-> FALSE]

\* prev.slice(0, k)
SliceLast_first(s, k) == IF Len(s) <= k THEN s ELSE SubSeq(s, 1, k)

\* prev.slice(-k)
SliceLast(s, k) == IF Len(s) <= k THEN s ELSE SubSeq(s, Len(s) - k + 1, Len(s))

\* the capture components are in the tree of a render
Rendered(active, permissions, status) == active /\ permissions /\ status = "online"

\* the useState initial values of App and SessionSummary
AppInitialState ==
  /\ isActive = FALSE
  /\ hasPermissions = FALSE
  /\ isRequestingPermissions = FALSE
  /\ backendStatus = "checking"
  /\ currentData = [timestamp |-> 0, videoScore |-> 0, audioScore |-> 0, overallScore |-> 0,
                    alert |-> FALSE]
  /\ detectionHistory = <<>>
  /\ suspiciousSegments = <<>>
  /\ isProcessing = FALSE
  /\ currentSession = null
  /\ pastSessions = <<>>
  /\ activeTab = "monitor"
  /\ localStorage = <<>>
  /\ finalized = <<>>
  /\ captureProps = NoCapture
  /\ uploads = EmptyBag
  /\ permissionQuery = TRUE
  /\ toggleRequests = 0
  /\ connectionRetries = 0
  /\ healthChecks = SetToBag({0})
  /\ healthTimers = EmptyBag
  /\ saveEffectPending = FALSE
  /\ clock = 0
  /\ uploadsStarted = 0
  /\ handled = [count |-> 0, sum |-> 0, suspicious |-> 0]

\* ---------------------------------------------------------- text: values
\* the minimum length all three clients test (MIN_TEXT_LENGTH of the extension)
MinTextLength == 50
\* raw lengths go up to MaxTextLen, leading and trailing whitespace up to MaxPad
MaxTextLen == 51
MaxPad == 2
\* requests of the extension without a response yet
MaxTextRequests == 2

TextLens == {0, 1} \cup ((MinTextLength - 2)..MaxTextLen)
Texts == {t \in [len : TextLens, pad : 0..MaxPad] : t.pad <= t.len}
\* text.trim().length
TrimLen(t) == t.len - t.pad
\* text.trim()
Trim(t) == [len |-> TrimLen(t), pad |-> 0]

NoText == [len |-> 0, pad |-> 0]
NoResult == [none |-> TRUE]

TextInitialState ==
  /\ text = NoText
  /\ isAnalyzing = FALSE
  /\ textError = ""
  /\ textResult = NoResult
  /\ textRequests = EmptyBag
  /\ inputTimer = FALSE
  /\ isEnabled = TRUE
  /\ aiDetectionEnabled = TRUE
  /\ lastAnalysed = NoResult

\* -------------------------------------------------------- server: values
\* the server revisions of the repository
ServerRevisions == {"server/index.js", "part_009"}
\* Date.now() runs up to MaxServerTime, at most MaxServerRequests uploads and analyses
MaxServerTime == 1
\* const userId = Date.now().toString()
UserId(timestamp) == ToString(timestamp)
\* the userIds of accounts, and what a request carries in its Authorization header (a
\* valid token stands for the userId of its payload)
Users == {UserId(t) : t \in 0..MaxServerTime}
Tokens == {"none", "invalid"} \cup Users
\* the emails accounts are registered under
Emails == {"a@school", "b@school"}
MaxServerRequests == 3
\* at most MaxServerUploads uploads to /api/detect
MaxServerUploads == 2
\* at most MaxToggles POSTs to /api/toggle-recording
MaxToggles == 2
\* no response sent yet
NoResponse == [route |-> "none"]

\* the module-level state of the server after startup
ServerInitialState ==
  /\ server_isRecording = TRUE
  /\ server_detectionHistory = <<>>
  /\ server_suspiciousSegments = <<>>
  /\ userDetectionHistory = [u \in Users |-> <<>>]
  /\ userSuspiciousSegments = [u \in Users |-> <<>>]
  /\ filesBeingProcessed = {}
  /\ tempFiles = {}
  /\ detects = EmptyBag
  /\ deleting = null
  /\ server_now = 0
  /\ serverBudget = 0
  /\ toggles = 0
  /\ users = [e \in {} |-> ""]
  /\ segmentsSinceDelete = <<>>
  /\ cleanupScheduled = TRUE
  /\ lastResponse = NoResponse

\* ------------------------------------------------------------------- Init
\* a capture component instance before its first effect
CaptureInitialState ==
  /\ phase = "init"
  /\ req = [i \in Attempts |-> "none"]
  /\ recorders = [i \in Attempts |-> "none"]
  /\ retryTimers = {}
  /\ restartTimers = 0
  /\ isComponentMounted = TRUE
  /\ audioRecorderRef = 0
  /\ audioStreamRef = 0
  /\ audioRetryTimeoutRef = 0
  /\ isAudioRecording = FALSE
  /\ audioError = ""
  /\ hasStartedRef = FALSE
  /\ mediaRecorderRef = 0
  /\ streamRef = 0
  /\ screenRetryTimeoutRef = 0
  /\ isRecording = FALSE
  /\ screenError = ""
  /\ trackStopCalls = [i \in Attempts |-> 0]
  /\ recorderStopCalls = [i \in Attempts |-> 0]
  /\ chunks = 0
  /\ posts = 0
  /\ lastOp = [op |-> "none", prev |-> "none", bit |-> 0, att |-> 0, err |-> ""]

InitCapture ==
  /\ component \in {"MediaCapture", "ScreenCapture"}
  /\ formatSupported \in BOOLEAN
  /\ CaptureInitialState
  /\ AppInitialState
  /\ TextInitialState
  /\ ServerInitialState

\* --------------------------------------------------- browser media objects
\* MediaRecorder.stop() on the recorder a ref holds (skipped when inactive)
RecAfterStop(recs, rref) ==
  IF rref # 0 /\ recs[rref] = "recording" THEN [recs EXCEPT ![rref] = "inactive"] ELSE recs

\* a recorder whose stream has lost all its tracks stops by itself
RecAfterTracksEnd(recs, s) ==
  IF s # 0 /\ recs[s] = "recording" THEN [recs EXCEPT ![s] = "inactive"] ELSE recs

StopCallsAfter(calls, i, called) ==
  IF called THEN [calls EXCEPT ![i] = Cap2(calls[i])] ELSE calls

\* ------------------------------------------------- MediaCapture (audio)
\* stopAudioCapture, run on the recorder / request state the caller hands over
stopAudioCapture_keepRefs(recs, reqs) ==
  /\ isAudioRecording' = FALSE
  /\ audioError' = ""
  /\ retryTimers' = IF audioRetryTimeoutRef # 0 THEN retryTimers \ {audioRetryTimeoutRef}
                                                ELSE retryTimers
  /\ audioRetryTimeoutRef' = 0
  /\ recorders' = RecAfterTracksEnd(RecAfterStop(recs, audioRecorderRef), audioStreamRef)
  /\ recorderStopCalls' = StopCallsAfter(recorderStopCalls, audioRecorderRef,
                             audioRecorderRef # 0 /\ recs[audioRecorderRef] # "inactive")
  /\ audioRecorderRef' = audioRecorderRef
  /\ req' = IF audioStreamRef # 0 THEN [reqs EXCEPT ![audioStreamRef] = "ended"] ELSE reqs
  /\ trackStopCalls' = StopCallsAfter(trackStopCalls, audioStreamRef, audioStreamRef # 0)
  /\ audioStreamRef' = audioStreamRef

stopAudioCapture(recs, reqs) ==
  /\ isAudioRecording' = FALSE
  /\ audioError' = ""
  /\ retryTimers' = IF audioRetryTimeoutRef # 0 THEN retryTimers \ {audioRetryTimeoutRef}
                                                ELSE retryTimers
  /\ audioRetryTimeoutRef' = 0
  /\ recorders' = RecAfterTracksEnd(RecAfterStop(recs, audioRecorderRef), audioStreamRef)
  /\ recorderStopCalls' = StopCallsAfter(recorderStopCalls, audioRecorderRef,
                             audioRecorderRef # 0 /\ recs[audioRecorderRef] # "inactive")
  /\ audioRecorderRef' = 0
  /\ req' = IF audioStreamRef # 0 THEN [reqs EXCEPT ![audioStreamRef] = "ended"] ELSE reqs
  /\ trackStopCalls' = StopCallsAfter(trackStopCalls, audioStreamRef, audioStreamRef # 0)
  /\ audioStreamRef' = 0

\* startAudioCapture up to its await: the getUserMedia request is issued
startAudioCapture(mounted) ==
  IF ~mounted
    THEN /\ req' = req
         /\ audioError' = audioError
    ELSE /\ FreeAttempts # {}
         /\ req' = [req EXCEPT ![NextAttempt] = "pending"]
         /\ audioError' = ""

\* the message the catch block of startAudioCapture sets
AudioErrorMessage(name) ==
  CASE name = "NotAllowedError"   -> "Microphone permission denied"
    [] name = "NotFoundError"     -> "No microphone found"
    [] name = "NotSupportedError" -> "Audio recording not supported"
    [] OTHER                      -> name

AudioErrorNames == {"NotAllowedError", "NotFoundError", "NotSupportedError"}

\* the retry the catch block of startAudioCapture schedules (5 s)
AudioScheduleRetry(i, mounted) ==
  IF mounted
    THEN /\ retryTimers' = retryTimers \cup {i}
         /\ audioRetryTimeoutRef' = i
    ELSE /\ retryTimers' = retryTimers
         /\ audioRetryTimeoutRef' = audioRetryTimeoutRef

\* restartAudioCapture: stop, then start again after 1 s while mounted
AudioScheduleRestart(mounted) ==
  restartTimers' = IF mounted THEN restartTimers + 1 ELSE restartTimers

restartAudioCapture(recs, reqs) ==
  /\ stopAudioCapture(recs, reqs)
  /\ AudioScheduleRestart(isComponentMounted)

\* useEffect(..., []) on mount
MountMediaCapture ==
  /\ component = "MediaCapture"
  /\ phase = "init"
  /\ phase' = "mounted"
  /\ isComponentMounted' = TRUE
  /\ startAudioCapture(TRUE)
  /\ lastOp' = Op("mount", 0, "")
  /\ UNCHANGED <<appVars, textVars, serverVars, component, formatSupported, recorders, retryTimers, restartTimers,
                 audioRecorderRef, audioStreamRef, audioRetryTimeoutRef, isAudioRecording,
                 screenVars, trackStopCalls, recorderStopCalls, chunks, posts>>

\* the cleanup of that effect
UnmountMediaCapture ==
  /\ component = "MediaCapture"
  /\ phase = "mounted"
  /\ phase' = "unmounted"
  /\ isComponentMounted' = FALSE
  /\ stopAudioCapture(recorders, req)
  /\ lastOp' = Op("unmount", 0, "")
  /\ UNCHANGED <<appVars, textVars, serverVars, component, formatSupported, restartTimers, screenVars, chunks, posts>>

\* getUserMedia resolves: the rest of the try block of startAudioCapture
GetUserMediaResolve(i) ==
  /\ component = "MediaCapture"
  /\ req[i] = "pending"
  /\ IF ~isComponentMounted
       THEN \* the stream is released at once
            /\ req' = [req EXCEPT ![i] = "ended"]
            /\ trackStopCalls' = StopCallsAfter(trackStopCalls, i, TRUE)
            /\ lastOp' = Op("resolveUnmounted", i, "")
            /\ UNCHANGED <<recorders, retryTimers, audioVars>>
       ELSE IF ~formatSupported
       THEN \* throw new Error('No supported audio format available')
            /\ req' = [req EXCEPT ![i] = "live"]
            /\ audioStreamRef' = i
            /\ audioError' = "No supported audio format available"
            /\ AudioScheduleRetry(i, isComponentMounted)
            /\ lastOp' = Op("startFailed", i, "UnsupportedFormat")
            /\ UNCHANGED <<recorders, trackStopCalls, isComponentMounted, audioRecorderRef,
                           isAudioRecording>>
       ELSE /\ req' = [req EXCEPT ![i] = "live"]
            /\ audioStreamRef' = i
            /\ recorders' = [recorders EXCEPT ![i] = "recording"]
            /\ audioRecorderRef' = i
            /\ isAudioRecording' = TRUE
            /\ lastOp' = Op("started", i, "")
            /\ UNCHANGED <<retryTimers, trackStopCalls, isComponentMounted,
                           audioRetryTimeoutRef, audioError>>
  /\ UNCHANGED <<appVars, textVars, serverVars, component, formatSupported, phase, restartTimers, screenVars,
                 recorderStopCalls, chunks, posts>>

\* getUserMedia rejects: the catch block of startAudioCapture
GetUserMediaReject(i, name) ==
  /\ component = "MediaCapture"
  /\ req[i] = "pending"
  /\ req' = [req EXCEPT ![i] = "rejected"]
  /\ audioError' = AudioErrorMessage(name)
  /\ AudioScheduleRetry(i, isComponentMounted)
  /\ lastOp' = Op("startFailed", i, name)
  /\ UNCHANGED <<appVars, textVars, serverVars, component, formatSupported, phase, recorders, restartTimers,
                 isComponentMounted, audioRecorderRef, audioStreamRef, isAudioRecording,
                 screenVars, trackStopCalls, recorderStopCalls, chunks, posts>>

\* the 5 s retry timeout fires
AudioRetryTimerFires(t) ==
  /\ component = "MediaCapture"
  /\ t \in retryTimers
  /\ retryTimers' = retryTimers \ {t}
  /\ startAudioCapture(isComponentMounted)
  /\ lastOp' = Op("retryTimer", t, "")
  /\ UNCHANGED <<appVars, textVars, serverVars, component, formatSupported, phase, recorders, restartTimers,
                 isComponentMounted, audioRecorderRef, audioStreamRef, audioRetryTimeoutRef,
                 isAudioRecording, screenVars, trackStopCalls, recorderStopCalls, chunks, posts>>

\* the 1 s restart timeout fires
AudioRestartTimerFires ==
  /\ component = "MediaCapture"
  /\ restartTimers > 0
  /\ restartTimers' = restartTimers - 1
  /\ startAudioCapture(isComponentMounted)
  /\ lastOp' = Op("restartTimer", 0, "")
  /\ UNCHANGED <<appVars, textVars, serverVars, component, formatSupported, phase, recorders, retryTimers,
                 isComponentMounted, audioRecorderRef, audioStreamRef, audioRetryTimeoutRef,
                 isAudioRecording, screenVars, trackStopCalls, recorderStopCalls, chunks, posts>>

\* mediaRecorder.onerror: the recorder fails and stops
AudioRecorderError(i) ==
  /\ component = "MediaCapture"
  /\ recorders[i] = "recording"
  /\ restartAudioCapture([recorders EXCEPT ![i] = "inactive"], req)
  /\ lastOp' = Op("recorderError", i, "")
  /\ UNCHANGED <<appVars, textVars, serverVars, component, formatSupported, phase, isComponentMounted, screenVars,
                 chunks, posts>>

\* track.onended: the microphone goes away (handlers are attached once the
\* recorder has been started); a recorder whose tracks have all ended stops
AudioTrackEnded(i) ==
  /\ component = "MediaCapture"
  /\ req[i] = "live"
  /\ IF recorders[i] # "none"
       THEN \* the recorder may or may not have gone inactive before the handler runs
            /\ \E recs \in {recorders, RecAfterTracksEnd(recorders, i)} :
                 restartAudioCapture(recs, [req EXCEPT ![i] = "ended"])
            /\ lastOp' = Op("trackEnded", i, "")
       ELSE /\ req' = [req EXCEPT ![i] = "ended"]
            /\ lastOp' = Op("trackEndedUnobserved", i, "")
            /\ UNCHANGED <<recorders, retryTimers, restartTimers, audioVars,
                           trackStopCalls, recorderStopCalls>>
  /\ UNCHANGED <<appVars, textVars, serverVars, component, formatSupported, phase, isComponentMounted, screenVars,
                 chunks, posts>>

\* mediaRecorder.ondataavailable with a non-empty chunk
AudioUploads(mounted, recording) == IF mounted /\ recording THEN 1 ELSE 0

AudioChunkAvailable(i) ==
  /\ component = "MediaCapture"
  /\ recorders[i] = "recording"
  /\ chunks < MaxChunks
  /\ chunks' = chunks + 1
  /\ posts' = posts + AudioUploads(isComponentMounted, closure_isAudioRecording)
  /\ lastOp' = Op("chunk", i, "")
  /\ UNCHANGED <<appVars, textVars, serverVars, envVars, audioVars, screenVars, trackStopCalls, recorderStopCalls>>

NextAudio ==
  \/ MountMediaCapture
  \/ UnmountMediaCapture
  \/ \E i \in Attempts : GetUserMediaResolve(i)
  \/ \E i \in Attempts, name \in AudioErrorNames : GetUserMediaReject(i, name)
  \/ \E t \in Attempts : AudioRetryTimerFires(t)
  \/ AudioRestartTimerFires
  \/ \E i \in Attempts : AudioRecorderError(i)
  \/ \E i \in Attempts : AudioTrackEnded(i)
  \/ \E i \in Attempts : AudioChunkAvailable(i)

\* ------------------------------------------------------- ScreenCapture
\* stopScreenCapture, run on the recorder / request state the caller hands over
stopScreenCapture(recs, reqs) ==
  /\ isRecording' = FALSE
  /\ screenError' = ""
  /\ retryTimers' = IF screenRetryTimeoutRef # 0 THEN retryTimers \ {screenRetryTimeoutRef}
                                                 ELSE retryTimers
  /\ screenRetryTimeoutRef' = 0
  /\ recorders' = RecAfterTracksEnd(RecAfterStop(recs, mediaRecorderRef), streamRef)
  /\ recorderStopCalls' = StopCallsAfter(recorderStopCalls, mediaRecorderRef,
                             mediaRecorderRef # 0 /\ recs[mediaRecorderRef] # "inactive")
  /\ mediaRecorderRef' = 0
  /\ req' = IF streamRef # 0 THEN [reqs EXCEPT ![streamRef] = "ended"] ELSE reqs
  /\ trackStopCalls' = StopCallsAfter(trackStopCalls, streamRef, streamRef # 0)
  /\ streamRef' = 0
  /\ hasStartedRef' = FALSE

\* startScreenCapture up to its await: the getDisplayMedia request is issued
startScreenCapture(active) ==
  IF ~active \/ hasStartedRef
    THEN /\ req' = req
         /\ hasStartedRef' = hasStartedRef
         /\ screenError' = screenError
    ELSE /\ FreeAttempts # {}
         /\ req' = [req EXCEPT ![NextAttempt] = "pending"]
         /\ hasStartedRef' = TRUE
         /\ screenError' = ""

\* the message the catch block of startScreenCapture sets
ScreenErrorMessage(name) ==
  CASE name = "NotAllowedError"   -> "Screen sharing permission denied"
    [] name = "NotFoundError"     -> "No screen available for capture"
    [] name = "NotSupportedError" -> "Screen capture not supported"
    [] name = "AbortError"        -> "Screen capture cancelled by user"
    [] OTHER                      -> name

ScreenErrorNames == {"NotAllowedError", "NotFoundError", "NotSupportedError", "AbortError"}

\* the catch block retries after 10 s unless the user cancelled or denied
ScreenRetries_always(name) == TRUE

ScreenRetries(name) == name # "AbortError" /\ name # "NotAllowedError"

ScreenScheduleRetry(i, name) ==
  IF ScreenRetries(name)
    THEN /\ retryTimers' = retryTimers \cup {i}
         /\ screenRetryTimeoutRef' = i
    ELSE /\ retryTimers' = retryTimers
         /\ screenRetryTimeoutRef' = screenRetryTimeoutRef

\* restartScreenCapture: stop, then start again after 2 s while isActive
ScreenScheduleRestart_never(active) == restartTimers' = restartTimers

ScreenScheduleRestart(active) ==
  restartTimers' = IF active THEN restartTimers + 1 ELSE restartTimers

restartScreenCapture(recs, reqs) ==
  /\ stopScreenCapture(recs, reqs)
  /\ ScreenScheduleRestart(closure_isActive)

\* useEffect(..., [isActive]) when App renders <ScreenCapture isActive={true}>
MountScreenCapture ==
  /\ component = "ScreenCapture"
  /\ phase = "init"
  /\ phase' = "mounted"
  /\ startScreenCapture(~isRecording)
  /\ lastOp' = Op("mount", 0, "")
  /\ UNCHANGED <<appVars, textVars, serverVars, component, formatSupported, recorders, retryTimers, restartTimers,
                 audioVars, mediaRecorderRef, streamRef, screenRetryTimeoutRef, isRecording,
                 trackStopCalls, recorderStopCalls, chunks, posts>>

\* the cleanup of that effect
UnmountScreenCapture ==
  /\ component = "ScreenCapture"
  /\ phase = "mounted"
  /\ phase' = "unmounted"
  /\ stopScreenCapture(recorders, req)
  /\ lastOp' = Op("unmount", 0, "")
  /\ UNCHANGED <<appVars, textVars, serverVars, component, formatSupported, restartTimers, audioVars, chunks, posts>>

\* getDisplayMedia resolves: the rest of the try block of startScreenCapture
GetDisplayMediaResolve(i) ==
  /\ component = "ScreenCapture"
  /\ req[i] = "pending"
  /\ req' = [req EXCEPT ![i] = "live"]
  /\ streamRef' = i
  /\ IF ~formatSupported
       THEN \* new MediaRecorder(stream, { mimeType }) throws NotSupportedError
            /\ hasStartedRef' = FALSE
            /\ screenError' = ScreenErrorMessage("NotSupportedError")
            /\ ScreenScheduleRetry(i, "NotSupportedError")
            /\ lastOp' = Op("startFailed", i, "NotSupportedError")
            /\ UNCHANGED <<recorders, mediaRecorderRef, isRecording>>
       ELSE /\ recorders' = [recorders EXCEPT ![i] = "recording"]
            /\ mediaRecorderRef' = i
            /\ isRecording' = TRUE
            /\ lastOp' = Op("started", i, "")
            /\ UNCHANGED <<retryTimers, hasStartedRef, screenRetryTimeoutRef, screenError>>
  /\ UNCHANGED <<appVars, textVars, serverVars, component, formatSupported, phase, restartTimers, audioVars,
                 trackStopCalls, recorderStopCalls, chunks, posts>>

\* getDisplayMedia rejects: the catch block of startScreenCapture
GetDisplayMediaReject(i, name) ==
  /\ component = "ScreenCapture"
  /\ req[i] = "pending"
  /\ req' = [req EXCEPT ![i] = "rejected"]
  /\ hasStartedRef' = FALSE
  /\ screenError' = ScreenErrorMessage(name)
  /\ ScreenScheduleRetry(i, name)
  /\ lastOp' = Op("startFailed", i, name)
  /\ UNCHANGED <<appVars, textVars, serverVars, component, formatSupported, phase, recorders, restartTimers, audioVars,
                 mediaRecorderRef, streamRef, isRecording,
                 trackStopCalls, recorderStopCalls, chunks, posts>>

\* the 10 s retry timeout fires
ScreenRetryTimerFires(t) ==
  /\ component = "ScreenCapture"
  /\ t \in retryTimers
  /\ retryTimers' = retryTimers \ {t}
  /\ startScreenCapture(closure_isActive)
  /\ lastOp' = Op("retryTimer", t, "")
  /\ UNCHANGED <<appVars, textVars, serverVars, component, formatSupported, phase, recorders, restartTimers, audioVars,
                 mediaRecorderRef, streamRef, screenRetryTimeoutRef, isRecording,
                 trackStopCalls, recorderStopCalls, chunks, posts>>

\* the 2 s restart timeout fires
ScreenRestartTimerFires ==
  /\ component = "ScreenCapture"
  /\ restartTimers > 0
  /\ restartTimers' = restartTimers - 1
  /\ startScreenCapture(closure_isActive)
  /\ lastOp' = Op("restartTimer", 0, "")
  /\ UNCHANGED <<appVars, textVars, serverVars, component, formatSupported, phase, recorders, retryTimers, audioVars,
                 mediaRecorderRef, streamRef, screenRetryTimeoutRef, isRecording,
                 trackStopCalls, recorderStopCalls, chunks, posts>>

\* mediaRecorder.onerror: the recorder fails and stops
ScreenRecorderError(i) ==
  /\ component = "ScreenCapture"
  /\ recorders[i] = "recording"
  /\ restartScreenCapture([recorders EXCEPT ![i] = "inactive"], req)
  /\ lastOp' = Op("recorderError", i, "")
  /\ UNCHANGED <<appVars, textVars, serverVars, component, formatSupported, phase, audioVars, chunks, posts>>

\* videoTrack.onended: the user ends the screen share (the handler is
\* attached once the recorder has been started)
ScreenTrackEnded(i) ==
  /\ component = "ScreenCapture"
  /\ req[i] = "live"
  /\ IF recorders[i] # "none"
       THEN \* the recorder may or may not have gone inactive before the handler runs
            /\ \E recs \in {recorders, RecAfterTracksEnd(recorders, i)} :
                 stopScreenCapture(recs, [req EXCEPT ![i] = "ended"])
            /\ lastOp' = Op("trackEnded", i, "")
       ELSE /\ req' = [req EXCEPT ![i] = "ended"]
            /\ lastOp' = Op("trackEndedUnobserved", i, "")
            /\ UNCHANGED <<recorders, retryTimers, screenVars,
                           trackStopCalls, recorderStopCalls>>
  /\ UNCHANGED <<appVars, textVars, serverVars, component, formatSupported, phase, restartTimers, audioVars, chunks, posts>>

\* mediaRecorder.ondataavailable with a non-empty chunk, handed to the
\* onDataAvailable callback of App, which POSTs it while its isActive holds
ScreenUploads(active) == IF active THEN 1 ELSE 0

ScreenChunkAvailable(i) ==
  /\ component = "ScreenCapture"
  /\ recorders[i] = "recording"
  /\ chunks < MaxChunks
  /\ chunks' = chunks + 1
  /\ posts' = posts + ScreenUploads(closure_isActive)
  /\ lastOp' = Op("chunk", i, "")
  /\ UNCHANGED <<appVars, textVars, serverVars, envVars, audioVars, screenVars, trackStopCalls, recorderStopCalls>>

NextScreen ==
  \/ MountScreenCapture
  \/ UnmountScreenCapture
  \/ \E i \in Attempts : GetDisplayMediaResolve(i)
  \/ \E i \in Attempts, name \in ScreenErrorNames : GetDisplayMediaReject(i, name)
  \/ \E t \in Attempts : ScreenRetryTimerFires(t)
  \/ ScreenRestartTimerFires
  \/ \E i \in Attempts : ScreenRecorderError(i)
  \/ \E i \in Attempts : ScreenTrackEnded(i)
  \/ \E i \in Attempts : ScreenChunkAvailable(i)

NextCapture == NextAudio \/ NextScreen

SpecCapture == InitCapture /\ [][NextCapture]_vars

\* ===================================================================== App
\* how many detectionHistory entries survive an append, and how many past sessions
HistoryKeep == 49
PastSessionsKeep == 10

\* the props a capture component works with: its handlers are those of its first
\* render, so they read the state of the App render that put it in the tree
PropsOf(data, session, active) ==
  [rendered |-> TRUE, currentData |-> data, currentSession |-> session, isActive |-> active]

\* the conditional render of ScreenCapture and MediaCapture
CaptureAfter(active, permissions, status, data, session) ==
  IF ~Rendered(active, permissions, status) THEN NoCapture
  ELSE IF captureProps # NoCapture THEN captureProps
  ELSE PropsOf(data, session, active)

\* newData of handleDetectionResult
NewData(props, result, now) ==
  LET score == Round100(result.trustScore)
      videoScore == IF result.mediaType = "video" THEN score ELSE props.currentData.videoScore
      audioScore == IF result.mediaType = "audio" THEN score ELSE props.currentData.audioScore
      overallScore == RoundHalf(videoScore + audioScore)
  IN  [timestamp |-> now, videoScore |-> videoScore, audioScore |-> audioScore,
       overallScore |-> overallScore,
       alert |-> (result.suspicious \/ overallScore < 50)]

\* the session update of handleDetectionResult
SessionAfter(session, result) ==
  LET trustScore == Round100(result.trustScore)
      newDetectionCount == session.detectionCount + 1
      newSuspiciousCount == session.suspiciousCount + (IF result.suspicious THEN 1 ELSE 0)
      currentTotalScore == Frac(session.avgTrustScore.num * session.detectionCount,
                                session.avgTrustScore.den)
      newAvgTrustScore == Frac(currentTotalScore.num + trustScore * currentTotalScore.den,
                               currentTotalScore.den * newDetectionCount)
  IN  [session EXCEPT !.detectionCount = newDetectionCount,
                      !.suspiciousCount = newSuspiciousCount,
                      !.avgTrustScore = newAvgTrustScore]

handleDetectionResult_everyResult(props, result, now) ==
  /\ currentData' = NewData(props, result, now)
  /\ detectionHistory' =
       SliceLast(detectionHistory, HistoryKeep) \o <<NewData(props, result, now)>>
  /\ suspiciousSegments' =
       IF TRUE
       THEN Append(suspiciousSegments,
                   [type |-> result.mediaType, score |-> Round100(result.trustScore)])
       ELSE suspiciousSegments
  /\ currentSession' =
       IF props.currentSession # null
       THEN SessionAfter(props.currentSession, result)
       ELSE currentSession

handleDetectionResult(props, result, now) ==
  /\ currentData' = NewData(props, result, now)
  /\ detectionHistory' =
       SliceLast(detectionHistory, HistoryKeep) \o <<NewData(props, result, now)>>
  /\ suspiciousSegments' =
       IF result.suspicious
       THEN Append(suspiciousSegments,
                   [type |-> result.mediaType, score |-> Round100(result.trustScore)])
       ELSE suspiciousSegments
  /\ currentSession' =
       IF props.currentSession # null
       THEN SessionAfter(props.currentSession, result)
       ELSE currentSession

\* ========================================================== SessionSummary
getVerdict_threshold70(trustScore, suspiciousRatio) ==
  IF FracLess(trustScore, Frac(50, 1)) \/ FracLess(Frac(3, 10), suspiciousRatio)
  THEN "AI Generated"
  ELSE IF FracLess(Frac(70, 1), trustScore) /\ FracLess(suspiciousRatio, Frac(1, 10))
       THEN "Likely Human"
       ELSE "Inconclusive"

getVerdict(trustScore, suspiciousRatio) ==
  IF FracLess(trustScore, Frac(50, 1)) \/ FracLess(Frac(3, 10), suspiciousRatio)
  THEN "AI Generated"
  ELSE IF FracLess(Frac(75, 1), trustScore) /\ FracLess(suspiciousRatio, Frac(1, 10))
       THEN "Likely Human"
       ELSE "Inconclusive"

\* newSession of the save effect of SessionSummary
NewSession(session, now) ==
  [startTime |-> session.startTime,
   endTime |-> now,
   avgTrustScore |-> session.avgTrustScore,
   detectionCount |-> session.detectionCount,
   suspiciousCount |-> session.suspiciousCount,
   overallVerdict |-> getVerdict(session.avgTrustScore,
                                 Frac(session.suspiciousCount, session.detectionCount))]

\* the condition of the save effect
SessionToSave(active, session) ==
  ~active /\ session # null /\ session.detectionCount > 0

\* the save effect of a render with isActive = active and currentSession = session
\* whose pastSessions is sessions; otherwise is the state when it saves nothing
SaveEffect(sessions, active, session, now, otherwise) ==
  IF SessionToSave(active, session)
  THEN LET updatedSessions ==
             SliceLast(Append(sessions, NewSession(session, now)), PastSessionsKeep)
       IN  /\ pastSessions' = updatedSessions
           /\ localStorage' = updatedSessions
  ELSE /\ pastSessions' = otherwise
       /\ UNCHANGED localStorage

\* the effects of SessionSummary after a render in which isActive or currentSession
\* changed
SummaryEffects(active, session, now) ==
  IF activeTab = "summary"
  THEN SaveEffect(pastSessions, active, session, now, pastSessions)
  ELSE UNCHANGED <<pastSessions, localStorage>>

\* the toggle button is not disabled
ButtonEnabled == backendStatus # "offline" /\ ~isRequestingPermissions

\* checkExistingPermissions answers
CheckExistingPermissions(granted) ==
  /\ permissionQuery
  /\ permissionQuery' = FALSE
  /\ hasPermissions' = (hasPermissions \/ granted)
  /\ captureProps' = CaptureAfter(isActive, hasPermissions', backendStatus,
                                  currentData, currentSession)
  /\ UNCHANGED <<captureVars, textVars, serverVars, summaryVars, isActive, isRequestingPermissions, backendStatus, currentData,
                 detectionHistory, suspiciousSegments, isProcessing, currentSession,
                 pastSessions, uploads, toggleRequests, healthVars, saveEffectPending, clock, uploadsStarted,
                 handled>>

\* handleToggleDetection without permissions: requestPermissions starts
RequestPermissions ==
  /\ ButtonEnabled
  /\ ~hasPermissions /\ ~isActive
  /\ isRequestingPermissions' = TRUE
  /\ UNCHANGED <<captureVars, textVars, serverVars, summaryVars, isActive, hasPermissions, backendStatus, currentData,
                 detectionHistory, suspiciousSegments, isProcessing, currentSession,
                 pastSessions, captureProps, uploads, permissionQuery, healthVars, toggleRequests, saveEffectPending,
                 clock, uploadsStarted, handled>>

\* requestPermissions ends: the microphone was granted or not
PermissionsAnswer(granted) ==
  /\ isRequestingPermissions
  /\ isRequestingPermissions' = FALSE
  /\ hasPermissions' = granted
  /\ captureProps' = CaptureAfter(isActive, granted, backendStatus, currentData, currentSession)
  /\ UNCHANGED <<captureVars, textVars, serverVars, summaryVars, isActive, backendStatus, currentData, detectionHistory,
                 suspiciousSegments, isProcessing, currentSession, pastSessions, uploads,
                 permissionQuery, healthVars, toggleRequests, saveEffectPending, clock, uploadsStarted, handled>>

\* handleToggleDetection, the branch that starts a session
StartDetection ==
  /\ ButtonEnabled
  /\ hasPermissions /\ ~isActive
  /\ clock < MaxSessions
  /\ clock' = clock + 1
  /\ detectionHistory' = <<>>
  /\ currentData' = [timestamp |-> clock', videoScore |-> 0, audioScore |-> 0,
                      overallScore |-> 0, alert |-> FALSE]
  /\ currentSession' = [startTime |-> clock', detectionCount |-> 0, suspiciousCount |-> 0,
                        avgTrustScore |-> Frac(0, 1)]
  /\ isActive' = TRUE
  /\ captureProps' = CaptureAfter(TRUE, hasPermissions, backendStatus,
                                  currentData', currentSession')
  /\ handled' = [count |-> 0, sum |-> 0, suspicious |-> 0]
  /\ SummaryEffects(TRUE, currentSession', clock')
  /\ UNCHANGED <<captureVars, textVars, serverVars, activeTab, finalized, hasPermissions, isRequestingPermissions, backendStatus,
                 suspiciousSegments, isProcessing, uploads, permissionQuery, healthVars, toggleRequests,
                 saveEffectPending, uploadsStarted>>

\* handleToggleDetection, the branch that stops the session
StopDetection ==
  /\ ButtonEnabled
  /\ isActive
  /\ isActive' = FALSE
  /\ currentData' = [currentData EXCEPT !.videoScore = 0, !.audioScore = 0]
  /\ toggleRequests' = toggleRequests + 1
  /\ captureProps' = CaptureAfter(FALSE, hasPermissions, backendStatus,
                                  currentData', currentSession)
  /\ SummaryEffects(FALSE, currentSession, clock)
  /\ finalized' = IF SessionToSave(FALSE, currentSession)
                    THEN Append(finalized, currentSession.startTime)
                    ELSE finalized
  /\ UNCHANGED <<captureVars, textVars, serverVars, activeTab, hasPermissions, isRequestingPermissions, backendStatus,
                 detectionHistory, suspiciousSegments, isProcessing, currentSession,
                 uploads, permissionQuery, healthVars, saveEffectPending, clock,
                 uploadsStarted, handled>>

\* checkBackend gets a 2xx answer (the status alone: the retry counter, the checks in
\* flight and the timers are followed by checkBackendOk and checkBackendFails below)
HealthCheckOk ==
  /\ backendStatus' = "online"
  /\ captureProps' = CaptureAfter(isActive, hasPermissions, "online", currentData, currentSession)
  /\ UNCHANGED <<captureVars, textVars, serverVars, summaryVars, isActive, hasPermissions, isRequestingPermissions, currentData,
                 detectionHistory, suspiciousSegments, isProcessing, currentSession,
                 pastSessions, uploads, permissionQuery, healthVars, toggleRequests, saveEffectPending, clock,
                 uploadsStarted, handled>>

\* checkBackend fails: 'checking' when the connectionRetries its render had is below
\* maxRetries, 'offline' otherwise (the status alone, as for HealthCheckOk)
HealthCheckFail(status) ==
  /\ status \in {"checking", "offline"}
  /\ backendStatus' = status
  /\ captureProps' = CaptureAfter(isActive, hasPermissions, status, currentData, currentSession)
  /\ UNCHANGED <<captureVars, textVars, serverVars, summaryVars, isActive, hasPermissions, isRequestingPermissions, currentData,
                 detectionHistory, suspiciousSegments, isProcessing, currentSession,
                 pastSessions, uploads, permissionQuery, healthVars, toggleRequests, saveEffectPending, clock,
                 uploadsStarted, handled>>

\* ---- the health check effect with its retry counter
maxRetries == 3
\* failed checks in a row, checks in flight and armed retry timers that are followed
MaxConnectionRetries == 5
MaxHealthInFlight == 2
MaxHealthTimers == 3

\* the effect runs again after a render that changed connectionRetries: it calls the
\* checkBackend of that render and replaces the 30 s interval
HealthEffect(checks, before, after) ==
  IF after # before THEN checks (+) SetToBag({after}) ELSE checks

\* the fetch of a checkBackend made with connectionRetries = c answers 2xx
checkBackendOk(c) ==
  /\ BagIn(c, healthChecks)
  /\ backendStatus' = "online"
  /\ connectionRetries' = 0
  /\ healthChecks' = HealthEffect(healthChecks (-) SetToBag({c}), connectionRetries, 0)
  /\ captureProps' = CaptureAfter(isActive, hasPermissions, "online", currentData, currentSession)
  /\ UNCHANGED <<healthTimers, captureVars, textVars, serverVars, summaryVars, isActive, hasPermissions,
                 isRequestingPermissions, currentData, detectionHistory, suspiciousSegments,
                 isProcessing, currentSession, pastSessions, uploads, permissionQuery,
                 toggleRequests, saveEffectPending, clock, uploadsStarted, handled>>

\* the fetch rejects, is aborted after 5 s or answers with another status: the catch
\* block, which compares the connectionRetries of its render with maxRetries
checkBackendFails(c) ==
  /\ BagIn(c, healthChecks)
  /\ connectionRetries < MaxConnectionRetries
  /\ c < maxRetries => BagCardinality(healthTimers) < MaxHealthTimers
  /\ connectionRetries' = connectionRetries + 1
  /\ backendStatus' = IF c < maxRetries THEN "checking" ELSE "offline"
  /\ healthTimers' = IF c < maxRetries THEN healthTimers (+) SetToBag({c}) ELSE healthTimers
  /\ healthChecks' = HealthEffect(healthChecks (-) SetToBag({c}),
                                  connectionRetries, connectionRetries + 1)
  /\ captureProps' = CaptureAfter(isActive, hasPermissions, backendStatus',
                                  currentData, currentSession)
  /\ UNCHANGED <<captureVars, textVars, serverVars, summaryVars, isActive, hasPermissions,
                 isRequestingPermissions, currentData, detectionHistory, suspiciousSegments,
                 isProcessing, currentSession, pastSessions, uploads, permissionQuery,
                 toggleRequests, saveEffectPending, clock, uploadsStarted, handled>>

\* setTimeout(checkBackend, 2000 * (connectionRetries + 1)) of a failed check fires;
\* the cleanup of the effect clears the interval and leaves the timeouts armed
RetryTimerFires(c) ==
  /\ BagIn(c, healthTimers)
  /\ BagCardinality(healthChecks) < MaxHealthInFlight
  /\ healthTimers' = healthTimers (-) SetToBag({c})
  /\ healthChecks' = healthChecks (+) SetToBag({c})
  /\ UNCHANGED <<connectionRetries, backendStatus, captureProps, captureVars, textVars, serverVars, summaryVars, isActive, hasPermissions,
                 isRequestingPermissions, currentData, detectionHistory, suspiciousSegments,
                 isProcessing, currentSession, pastSessions, uploads, permissionQuery,
                 toggleRequests, saveEffectPending, clock, uploadsStarted, handled>>

\* setInterval(checkBackend, 30000) of the effect of the last render fires
HealthInterval ==
  /\ BagCardinality(healthChecks) < MaxHealthInFlight
  /\ healthChecks' = healthChecks (+) SetToBag({connectionRetries})
  /\ UNCHANGED <<connectionRetries, healthTimers, backendStatus, captureProps, captureVars, textVars, serverVars, summaryVars, isActive, hasPermissions,
                 isRequestingPermissions, currentData, detectionHistory, suspiciousSegments,
                 isProcessing, currentSession, pastSessions, uploads, permissionQuery,
                 toggleRequests, saveEffectPending, clock, uploadsStarted, handled>>

\* a chunk leaves a capture component: sendToBackend of MediaCapture ("media"),
\* or the onDataAvailable App passes to ScreenCapture ("screen")
UploadKinds == {<<"media", "video">>, <<"media", "audio">>, <<"screen", "video">>}

UploadStartWithin(kind, limit) ==
  /\ captureProps # NoCapture
  /\ kind[1] = "screen" => captureProps.isActive
  /\ uploadsStarted < limit
  /\ uploadsStarted' = uploadsStarted + 1
  /\ uploads' = uploads (+) SetToBag({[path |-> kind[1], mediaType |-> kind[2],
                                       props |-> captureProps]})
  /\ isProcessing' = IF kind[1] = "media" THEN TRUE ELSE isProcessing
  /\ UNCHANGED <<captureVars, textVars, serverVars, summaryVars, isActive, hasPermissions, isRequestingPermissions, backendStatus,
                 currentData, detectionHistory, suspiciousSegments, currentSession,
                 pastSessions, captureProps, permissionQuery, healthVars, toggleRequests, saveEffectPending, clock,
                 handled>>

UploadStart(kind) == UploadStartWithin(kind, MaxUploads)

\* the response of an upload arrives with a result, at the time now
ResultArrivesAt(u, trustScore, suspicious, now) ==
  LET result == [trustScore |-> trustScore, suspicious |-> suspicious,
                 mediaType |-> u.mediaType]
  IN  /\ BagIn(u, uploads)
      /\ uploads' = uploads (-) SetToBag({u})
      /\ IF u.path = "media" \/ u.props.isActive
         THEN /\ handleDetectionResult(u.props, result, now)
              /\ handled' =
                   IF isActive
                   THEN [count |-> handled.count + 1,
                         sum |-> handled.sum + Round100(trustScore),
                         suspicious |-> handled.suspicious + (IF suspicious THEN 1 ELSE 0)]
                   ELSE handled
         ELSE UNCHANGED <<currentData, detectionHistory, suspiciousSegments,
                          currentSession, handled>>
      /\ clock' = now
      /\ isProcessing' = IF u.path = "media" THEN FALSE ELSE isProcessing
      /\ IF (u.path = "media" \/ u.props.isActive) /\ u.props.currentSession # null
         THEN SummaryEffects(isActive, currentSession', now)
         ELSE UNCHANGED <<pastSessions, localStorage>>
      /\ UNCHANGED <<captureVars, textVars, serverVars, activeTab, finalized, isActive, hasPermissions, isRequestingPermissions,
                     backendStatus, captureProps, permissionQuery, healthVars, toggleRequests,
                     saveEffectPending, uploadsStarted>>

ResultArrives(u, trustScore, suspicious) == ResultArrivesAt(u, trustScore, suspicious, clock)

\* the detect endpoint answers with a status that is not 2xx; the body of its
\* catch block carries mock scores (trustScore 0.7 + Math.random() * 0.25).
\* sendToBackend throws at !response.ok; the screen path parses the body and
\* hands it on as it does a result
ErrorTrustScores == {t \in TrustScores : 700 <= t /\ t < 950}

ErrorResponseArrives(u, trustScore, suspicious) ==
  LET result == [trustScore |-> trustScore, suspicious |-> suspicious,
                 mediaType |-> u.mediaType]
  IN  /\ BagIn(u, uploads)
      /\ uploads' = uploads (-) SetToBag({u})
      /\ IF u.path = "screen" /\ u.props.isActive
         THEN /\ handleDetectionResult(u.props, result, clock)
              /\ handled' =
                   IF isActive
                   THEN [count |-> handled.count + 1,
                         sum |-> handled.sum + Round100(trustScore),
                         suspicious |-> handled.suspicious + (IF suspicious THEN 1 ELSE 0)]
                   ELSE handled
         ELSE UNCHANGED <<currentData, detectionHistory, suspiciousSegments,
                          currentSession, handled>>
      /\ isProcessing' = IF u.path = "media" THEN FALSE ELSE isProcessing
      /\ IF (u.path = "screen" /\ u.props.isActive) /\ u.props.currentSession # null
         THEN SummaryEffects(isActive, currentSession', clock)
         ELSE UNCHANGED <<pastSessions, localStorage>>
      /\ UNCHANGED <<captureVars, textVars, serverVars, activeTab, finalized, isActive, hasPermissions, isRequestingPermissions,
                     backendStatus, captureProps, permissionQuery, healthVars, toggleRequests,
                     saveEffectPending, clock, uploadsStarted>>

\* the upload gets no response at all (network error)
UploadFails(u) ==
  /\ BagIn(u, uploads)
  /\ uploads' = uploads (-) SetToBag({u})
  /\ isProcessing' = IF u.path = "media" THEN FALSE ELSE isProcessing
  /\ UNCHANGED <<captureVars, textVars, serverVars, summaryVars, isActive, hasPermissions, isRequestingPermissions, backendStatus,
                 currentData, detectionHistory, suspiciousSegments, currentSession,
                 pastSessions, captureProps, permissionQuery, healthVars, toggleRequests, saveEffectPending, clock,
                 uploadsStarted, handled>>

clearSuspiciousSegments ==
  /\ suspiciousSegments' = <<>>
  /\ UNCHANGED <<captureVars, textVars, serverVars, summaryVars, isActive, hasPermissions, isRequestingPermissions, backendStatus,
                 currentData, detectionHistory, isProcessing, currentSession, pastSessions,
                 captureProps, uploads, permissionQuery, healthVars, toggleRequests, saveEffectPending, clock,
                 uploadsStarted, handled>>

\* onAnalysisComplete of VideoAnalyzer ('video') and TextAnalyzer ('text')
AnalysisComplete(type, trustScore, suspicious) ==
  /\ Len(suspiciousSegments) < MaxSegments
  /\ suspiciousSegments' =
       IF suspicious
       THEN Append(suspiciousSegments, [type |-> type, score |-> Round100(trustScore)])
       ELSE suspiciousSegments
  /\ UNCHANGED <<captureVars, textVars, serverVars, summaryVars, isActive, hasPermissions,
                 isRequestingPermissions, backendStatus, currentData, detectionHistory,
                 isProcessing, currentSession, pastSessions, captureProps, uploads,
                 permissionQuery, healthVars, toggleRequests, saveEffectPending, clock, uploadsStarted, handled>>

\* the user opens the summary tab: SessionSummary mounts, its load effect and its
\* save effect run in turn, the save effect on the pastSessions of the first render
OpenSummaryTab ==
  /\ activeTab # "summary"
  /\ activeTab' = "summary"
  /\ SaveEffect(<<>>, isActive, currentSession, clock, localStorage)
  /\ UNCHANGED <<captureVars, textVars, serverVars, appStateVars, finalized, captureProps,
                 uploads, permissionQuery, healthVars, toggleRequests, saveEffectPending, clock, uploadsStarted, handled>>

\* the user opens another tab: SessionSummary and its state leave the tree
LeaveSummaryTab ==
  /\ activeTab = "summary"
  /\ activeTab' = "monitor"
  /\ pastSessions' = <<>>
  /\ UNCHANGED <<captureVars, textVars, serverVars, appStateVars, localStorage, finalized,
                 captureProps, uploads, permissionQuery, healthVars, toggleRequests, saveEffectPending, clock,
                 uploadsStarted, handled>>

InitApp ==
  /\ component = "none"
  /\ formatSupported = TRUE
  /\ CaptureInitialState
  /\ AppInitialState
  /\ TextInitialState
  /\ ServerInitialState

NextApp ==
  \/ \E granted \in BOOLEAN : CheckExistingPermissions(granted)
  \/ RequestPermissions
  \/ \E granted \in BOOLEAN : PermissionsAnswer(granted)
  \/ StartDetection
  \/ StopDetection
  \/ HealthCheckOk
  \/ \E status \in {"checking", "offline"} : HealthCheckFail(status)
  \/ \E kind \in UploadKinds : UploadStart(kind)
  \/ \E u \in BagToSet(uploads), t \in TrustScores, suspicious \in BOOLEAN : ResultArrives(u, t, suspicious)
  \/ \E u \in BagToSet(uploads), t \in ErrorTrustScores, suspicious \in BOOLEAN :
       ErrorResponseArrives(u, t, suspicious)
  \/ \E u \in BagToSet(uploads) : UploadFails(u)
  \/ clearSuspiciousSegments

SpecApp == InitApp /\ [][NextApp]_vars

\* ---- the health check of a backend that comes and goes
ClosureValues == 0..MaxConnectionRetries

NextHealth ==
  \/ \E c \in ClosureValues : checkBackendOk(c)
  \/ \E c \in ClosureValues : checkBackendFails(c)
  \/ \E c \in ClosureValues : RetryTimerFires(c)
  \/ HealthInterval

SpecHealth == InitApp /\ [][NextHealth]_vars

\* ---- a session long enough to fill detectionHistory
\* uploads of one session, each result a millisecond after the one before
MaxHistoryResults == 53
\* at most MaxHistoryInFlight of them without a response
MaxHistoryInFlight == 2

HistoryUpload ==
  /\ BagCardinality(uploads) < MaxHistoryInFlight
  /\ UploadStartWithin(<<"media", "video">>, MaxHistoryResults)

HistoryResult ==
  \E u \in BagToSet(uploads), suspicious \in {FALSE} :
    ResultArrivesAt(u, 906, suspicious, clock + 1)

NextHistory ==
  \/ \E granted \in BOOLEAN : CheckExistingPermissions(granted)
  \/ HealthCheckOk
  \/ StartDetection
  \/ StopDetection
  \/ HistoryUpload
  \/ HistoryResult

SpecHistory == InitApp /\ [][NextHistory]_vars

\* ---- the evidence list
NextEvidence ==
  \/ \E granted \in BOOLEAN : CheckExistingPermissions(granted)
  \/ HealthCheckOk
  \/ StartDetection
  \/ StopDetection
  \/ \E kind \in {<<"media", "audio">>, <<"screen", "video">>} : UploadStart(kind)
  \/ \E u \in BagToSet(uploads), suspicious \in BOOLEAN : ResultArrives(u, 906, suspicious)
  \/ \E type \in {"video", "text"}, suspicious \in BOOLEAN :
       AnalysisComplete(type, 300, suspicious)
  \/ clearSuspiciousSegments

SpecEvidence == InitApp /\ [][NextEvidence]_vars

\* ---- sessions and the summary tab
SessionUpload == UploadStart(<<"media", "video">>)

SessionResult == \E u \in BagToSet(uploads) : ResultArrives(u, 906, FALSE)

NextSessions ==
  \/ \E granted \in BOOLEAN : CheckExistingPermissions(granted)
  \/ HealthCheckOk
  \/ StartDetection
  \/ StopDetection
  \/ SessionUpload
  \/ SessionResult
  \/ OpenSummaryTab
  \/ LeaveSummaryTab

SpecSessions == InitApp /\ [][NextSessions]_vars

\* the effect that saves the current session when detection stops
SaveSessionEffect ==
  /\ saveEffectPending
  /\ saveEffectPending' = FALSE
  /\ SaveEffect(pastSessions, isActive, currentSession, clock, pastSessions)
  /\ UNCHANGED <<captureVars, textVars, serverVars, activeTab, finalized, appStateVars, captureProps, uploads, permissionQuery, healthVars, toggleRequests,
                 clock, uploadsStarted, handled>>

\* the averages and sessions SessionSummary is given: whole and half percentages
AvgInputs == {Frac(n, 1) : n \in 0..100} \cup {Frac(2 * n + 1, 2) : n \in 0..99}
SessionInputs ==
  {[startTime |-> 1, detectionCount |-> d, suspiciousCount |-> k, avgTrustScore |-> a] :
     d \in 0..MaxDetections, k \in 0..MaxDetections, a \in AvgInputs}

InitVerdict ==
  /\ component = "none"
  /\ formatSupported = TRUE
  /\ CaptureInitialState
  /\ TextInitialState
  /\ ServerInitialState
  /\ isActive \in BOOLEAN
  /\ currentSession \in {null} \cup {c \in SessionInputs : c.suspiciousCount <= c.detectionCount}
  /\ saveEffectPending = TRUE
  /\ hasPermissions = TRUE
  /\ isRequestingPermissions = FALSE
  /\ backendStatus = "online"
  /\ currentData = [timestamp |-> 0, videoScore |-> 0, audioScore |-> 0, overallScore |-> 0,
                    alert |-> FALSE]
  /\ detectionHistory = <<>>
  /\ suspiciousSegments = <<>>
  /\ isProcessing = FALSE
  /\ pastSessions = <<>>
  /\ activeTab = "summary"
  /\ localStorage = <<>>
  /\ finalized = <<>>
  /\ captureProps = NoCapture
  /\ uploads = EmptyBag
  /\ permissionQuery = FALSE
  /\ toggleRequests = 0
  /\ connectionRetries = 0
  /\ healthChecks = EmptyBag
  /\ healthTimers = EmptyBag
  /\ clock = 1
  /\ uploadsStarted = 0
  /\ handled = [count |-> 0, sum |-> 0, suspicious |-> 0]

NextVerdict == SaveSessionEffect

SpecVerdict == InitVerdict /\ [][NextVerdict]_vars

\* ============================================================ text clients
\* the length test of handleAnalyze and analyzeResponse
TooShort_rawLength(t) == t.len < MinTextLength

TooShort(t) == TrimLen(t) < MinTextLength

\* the Analyze button of TextAnalyzer and TestResponseDetector is not disabled
AnalyzeEnabled == TrimLen(text) # 0 /\ text.len >= MinTextLength /\ ~isAnalyzing

\* ---- TextAnalyzer
handleTextChange(t) ==
  /\ component = "TextAnalyzer"
  /\ ~isAnalyzing
  /\ text' = t
  /\ textResult' = NoResult
  /\ textError' = ""
  /\ lastOp' = Op("textChange", 0, "")
  /\ UNCHANGED <<serverVars, component, formatSupported, phase, req, recorders, retryTimers,
                 restartTimers, audioVars, screenVars, trackStopCalls, recorderStopCalls,
                 chunks, posts, appVars, isAnalyzing, textRequests, inputTimer, isEnabled, aiDetectionEnabled,
                 lastAnalysed>>

handleAnalyze ==
  /\ component = "TextAnalyzer"
  /\ AnalyzeEnabled
  /\ IF TrimLen(text) = 0
     THEN /\ textError' = "Please enter some text first"
          /\ UNCHANGED isAnalyzing
     ELSE IF TooShort(text)
     THEN /\ textError' = "Please enter at least 50 characters for accurate analysis"
          /\ UNCHANGED isAnalyzing
     ELSE /\ isAnalyzing' = TRUE
          /\ textError' = ""
  /\ lastOp' = Op("analyze", 0, "")
  /\ UNCHANGED <<serverVars, component, formatSupported, phase, req, recorders, retryTimers,
                 restartTimers, audioVars, screenVars, trackStopCalls, recorderStopCalls,
                 chunks, posts, appVars, text, textResult, textRequests, inputTimer,
                 isEnabled, aiDetectionEnabled, lastAnalysed>>

\* handleAnalyze after its delay: analyzeText, setResult, onAnalysisComplete
AnalysisFinishes ==
  /\ component = "TextAnalyzer"
  /\ isAnalyzing
  /\ lastAnalysed' = text
  /\ textResult' = [text |-> text]
  /\ isAnalyzing' = FALSE
  /\ lastOp' = Op("result", 0, "")
  /\ UNCHANGED <<serverVars, component, formatSupported, phase, req, recorders, retryTimers,
                 restartTimers, audioVars, screenVars, trackStopCalls, recorderStopCalls,
                 chunks, posts, appVars, text, textError, textRequests, inputTimer,
                 isEnabled, aiDetectionEnabled>>

resetForm ==
  /\ component = "TextAnalyzer"
  /\ ~isAnalyzing
  /\ text' = NoText
  /\ textResult' = NoResult
  /\ textError' = ""
  /\ lastOp' = Op("reset", 0, "")
  /\ UNCHANGED <<serverVars, component, formatSupported, phase, req, recorders, retryTimers,
                 restartTimers, audioVars, screenVars, trackStopCalls, recorderStopCalls,
                 chunks, posts, appVars, isAnalyzing, textRequests, inputTimer, isEnabled, aiDetectionEnabled,
                 lastAnalysed>>

\* ---- TestResponseDetector
setResponse(t) ==
  /\ component = "TestResponseDetector"
  /\ ~isAnalyzing
  /\ text' = t
  /\ lastOp' = Op("textChange", 0, "")
  /\ UNCHANGED <<serverVars, component, formatSupported, phase, req, recorders, retryTimers,
                 restartTimers, audioVars, screenVars, trackStopCalls, recorderStopCalls,
                 chunks, posts, appVars, isAnalyzing, textError, textResult, textRequests,
                 inputTimer, isEnabled, aiDetectionEnabled, lastAnalysed>>

analyzeResponse ==
  /\ component = "TestResponseDetector"
  /\ AnalyzeEnabled
  /\ IF TrimLen(text) = 0
     THEN /\ textError' = "Please enter a test response to analyze"
          /\ UNCHANGED <<isAnalyzing, textRequests, lastAnalysed>>
     ELSE IF TooShort(text)
     THEN /\ textError' = "Response too short for accurate analysis (minimum 50 characters)"
          /\ UNCHANGED <<isAnalyzing, textRequests, lastAnalysed>>
     ELSE /\ isAnalyzing' = TRUE
          /\ textError' = ""
          /\ textRequests' = textRequests (+) SetToBag({text})
          /\ lastAnalysed' = text
  /\ lastOp' = Op("analyze", 0, "")
  /\ UNCHANGED <<serverVars, component, formatSupported, phase, req, recorders, retryTimers,
                 restartTimers, audioVars, screenVars, trackStopCalls, recorderStopCalls,
                 chunks, posts, appVars, text, textResult, inputTimer, isEnabled, aiDetectionEnabled>>

\* the response of analyzeResponse's request: ok, or not (also no response)
DetectorResponse(t, ok) ==
  /\ component = "TestResponseDetector"
  /\ BagIn(t, textRequests)
  /\ textRequests' = textRequests (-) SetToBag({t})
  /\ IF ok THEN textResult' = [text |-> t] /\ UNCHANGED textError
           ELSE textError' = "Analysis failed. Please try again." /\ UNCHANGED textResult
  /\ isAnalyzing' = FALSE
  /\ lastOp' = Op("result", 0, "")
  /\ UNCHANGED <<serverVars, component, formatSupported, phase, req, recorders, retryTimers,
                 restartTimers, audioVars, screenVars, trackStopCalls, recorderStopCalls,
                 chunks, posts, appVars, text, inputTimer, isEnabled, aiDetectionEnabled, lastAnalysed>>

\* ---- browser extension (content.js)
\* analyzeText(text, input) up to its fetch, called when the trimmed value is long enough
ExtensionSubmit(run) ==
  IF run /\ TrimLen(text) >= MinTextLength
  THEN /\ textRequests' = textRequests (+) SetToBag({Trim(text)})
       /\ lastAnalysed' = Trim(text)
  ELSE UNCHANGED <<textRequests, lastAnalysed>>

\* the input listener: the user types, the 2 s timeout is armed again
InputEvent(t) ==
  /\ component = "extension"
  /\ text' = t
  /\ inputTimer' = TRUE
  /\ lastOp' = Op("textChange", 0, "")
  /\ UNCHANGED <<serverVars, component, formatSupported, phase, req, recorders, retryTimers,
                 restartTimers, audioVars, screenVars, trackStopCalls, recorderStopCalls,
                 chunks, posts, appVars, isAnalyzing, textError, textResult, textRequests,
                 isEnabled, aiDetectionEnabled, lastAnalysed>>

InputTimerFires ==
  /\ component = "extension"
  /\ inputTimer
  /\ BagCardinality(textRequests) < MaxTextRequests
  /\ inputTimer' = FALSE
  /\ ExtensionSubmit(TRUE)
  /\ lastOp' = Op("analyze", 0, "")
  /\ UNCHANGED <<serverVars, component, formatSupported, phase, req, recorders, retryTimers,
                 restartTimers, audioVars, screenVars, trackStopCalls, recorderStopCalls,
                 chunks, posts, appVars, text, isAnalyzing, textError, textResult,
                 isEnabled, aiDetectionEnabled>>

\* the submit listener of the form
FormSubmit ==
  /\ component = "extension"
  /\ BagCardinality(textRequests) < MaxTextRequests
  /\ ExtensionSubmit(isEnabled)
  /\ lastOp' = Op("analyze", 0, "")
  /\ UNCHANGED <<serverVars, component, formatSupported, phase, req, recorders, retryTimers,
                 restartTimers, audioVars, screenVars, trackStopCalls, recorderStopCalls,
                 chunks, posts, appVars, text, isAnalyzing, textError, textResult,
                 inputTimer, isEnabled, aiDetectionEnabled>>

\* the response of analyzeText's request: ok (detectionResults.set), or not
ExtensionResponse(t, ok) ==
  /\ component = "extension"
  /\ BagIn(t, textRequests)
  /\ textRequests' = textRequests (-) SetToBag({t})
  /\ textResult' = IF ok THEN [text |-> t] ELSE textResult
  /\ lastOp' = Op("result", 0, "")
  /\ UNCHANGED <<serverVars, component, formatSupported, phase, req, recorders, retryTimers,
                 restartTimers, audioVars, screenVars, trackStopCalls, recorderStopCalls,
                 chunks, posts, appVars, text, isAnalyzing, textError, inputTimer,
                 isEnabled, aiDetectionEnabled, lastAnalysed>>

\* a click on the popup's switch: the new state is stored and sent to the content
\* script of the active tab
ExtensionToggle(enabled) ==
  /\ component = "extension"
  /\ enabled = ~aiDetectionEnabled
  /\ aiDetectionEnabled' = enabled
  /\ isEnabled' = enabled
  /\ lastOp' = Op("toggle", 0, "")
  /\ UNCHANGED <<serverVars, component, formatSupported, phase, req, recorders, retryTimers,
                 restartTimers, audioVars, screenVars, trackStopCalls, recorderStopCalls,
                 chunks, posts, appVars, text, isAnalyzing, textError, textResult,
                 textRequests, inputTimer, lastAnalysed>>

\* the page is loaded again: the content script starts anew, the storage stays
PageReload ==
  /\ component = "extension"
  /\ isEnabled' = TRUE
  /\ text' = NoText
  /\ inputTimer' = FALSE
  /\ textResult' = NoResult
  /\ textRequests' = EmptyBag
  /\ lastOp' = Op("reload", 0, "")
  /\ UNCHANGED <<serverVars, component, formatSupported, phase, req, recorders, retryTimers,
                 restartTimers, audioVars, screenVars, trackStopCalls, recorderStopCalls,
                 chunks, posts, appVars, isAnalyzing, textError, aiDetectionEnabled,
                 lastAnalysed>>

InitText ==
  /\ component \in {"TextAnalyzer", "TestResponseDetector", "extension"}
  /\ formatSupported = TRUE
  /\ CaptureInitialState
  /\ AppInitialState
  /\ TextInitialState
  /\ ServerInitialState

NextText ==
  \/ \E t \in Texts : handleTextChange(t)
  \/ handleAnalyze
  \/ AnalysisFinishes
  \/ resetForm
  \/ \E t \in Texts : setResponse(t)
  \/ analyzeResponse
  \/ \E t \in BagToSet(textRequests), ok \in BOOLEAN : DetectorResponse(t, ok)
  \/ \E t \in Texts : InputEvent(t)
  \/ InputTimerFires
  \/ FormSubmit
  \/ \E t \in BagToSet(textRequests), ok \in BOOLEAN : ExtensionResponse(t, ok)
  \/ \E enabled \in BOOLEAN : ExtensionToggle(enabled)
  \/ PageReload

SpecText == InitText /\ [][NextText]_vars

\* ================================================================== server
\* the caps of the server lists
ServerHistoryKeep == 100
ServerSegmentsKeep == 50
\* text.trim().length < 20 of /api/v1/analyze
MinAnalyzeLength == 20
\* the trustScore of the error bodies of part_009
ErrorHandlerTrustScore == 500
\* the trustScore of a skipped upload
SkippedTrustScore == 800

\* multer.diskStorage filename: media_<Date.now()><extension>
FilePath(timestamp, mediaType) ==
  [timestamp |-> timestamp, extension |-> IF mediaType = "video" THEN ".webm" ELSE ".wav"]

\* res.status(status).json(body), with the request it answers
Response(route, status, body, request) ==
  [route |-> route, status |-> status, body |-> body, request |-> request]

\* authenticateToken: 401 without a token, 403 for one that does not verify
AuthStatus(token) ==
  IF component # "part_009" THEN 200
  ELSE IF token = "none" THEN 401
  ELSE IF token = "invalid" THEN 403
  ELSE 200

\* what one run of cleanupTempFiles leaves in the temp directory
CleanupKeeps(files, segments, processing) ==
  IF component = "part_009"
  THEN files \cap processing
  ELSE files \cap {segments[i].filePath : i \in 1..Len(segments)}

Replace(bag, old, new) == (bag (-) SetToBag({old})) (+) SetToBag({new})

TimePasses ==
  /\ server_now < MaxServerTime
  /\ server_now' = server_now + 1
  /\ UNCHANGED <<captureVars, appVars, textVars, server_isRecording, server_detectionHistory,
                 server_suspiciousSegments, userDetectionHistory, userSuspiciousSegments,
                 filesBeingProcessed, tempFiles, detects, deleting, serverBudget, toggles, users,
                 segmentsSinceDelete, cleanupScheduled, lastResponse>>

\* the readdir callback of a cleanupTempFiles() call, or of the 30 s interval
cleanupTempFiles ==
  /\ tempFiles' = CleanupKeeps(tempFiles, server_suspiciousSegments, filesBeingProcessed)
  /\ cleanupScheduled' = FALSE
  /\ UNCHANGED <<captureVars, appVars, textVars, server_isRecording, server_detectionHistory,
                 server_suspiciousSegments, userDetectionHistory, userSuspiciousSegments,
                 filesBeingProcessed, detects, deleting, server_now, serverBudget, toggles, users,
                 segmentsSinceDelete, lastResponse>>

\* POST /api/toggle-recording
ToggleRecording ==
  /\ toggles < MaxToggles
  /\ toggles' = toggles + 1
  /\ server_isRecording' = ~server_isRecording
  /\ cleanupScheduled' = (cleanupScheduled \/ server_isRecording)
  /\ lastResponse' = Response("toggle-recording", 200,
                              [isRecording |-> ~server_isRecording], [n |-> toggles + 1])
  /\ UNCHANGED <<captureVars, appVars, textVars, server_detectionHistory,
                 server_suspiciousSegments, userDetectionHistory, userSuspiciousSegments,
                 filesBeingProcessed, tempFiles, detects, deleting, server_now, serverBudget, users,
                 segmentsSinceDelete>>

\* ---- POST /api/detect
\* multer stores the upload before the handler runs
UploadArrives(mediaType) ==
  /\ serverBudget < MaxServerUploads
  /\ serverBudget' = serverBudget + 1
  /\ LET filePath == FilePath(server_now, mediaType)
     IN /\ tempFiles' = tempFiles \cup {filePath}
        /\ detects' = detects (+) SetToBag({[filePath |-> filePath, mediaType |-> mediaType,
                                             stage |-> "uploaded"]})
  /\ UNCHANGED <<captureVars, appVars, textVars, server_isRecording, server_detectionHistory,
                 server_suspiciousSegments, userDetectionHistory, userSuspiciousSegments,
                 filesBeingProcessed, deleting, server_now, toggles, users, segmentsSinceDelete,
                 cleanupScheduled, lastResponse>>

\* a request without the media field
DetectWithoutFile ==
  /\ lastResponse' = Response("detect", 400,
                              IF component = "part_009"
                                THEN [error |-> TRUE, trustScore |-> ErrorHandlerTrustScore,
                                      suspicious |-> FALSE]
                                ELSE [error |-> TRUE],
                              [file |-> "none", recording |-> server_isRecording])
  /\ UNCHANGED <<captureVars, appVars, textVars, server_isRecording, server_detectionHistory,
                 server_suspiciousSegments, userDetectionHistory, userSuspiciousSegments,
                 filesBeingProcessed, tempFiles, detects, deleting, server_now, serverBudget,
                 toggles, users, segmentsSinceDelete, cleanupScheduled>>

\* the handler without its test of isRecording
DetectHandler_ignoresFlag(r) ==
  /\ r \in BagToSet(detects)
  /\ r.stage = "uploaded"
  /\ IF FALSE
       THEN /\ tempFiles' = tempFiles \ {r.filePath}
            /\ detects' = detects (-) SetToBag({r})
            /\ filesBeingProcessed' = filesBeingProcessed \ {r.filePath}
            /\ lastResponse' = Response("detect", 200,
                                        [trustScore |-> SkippedTrustScore, suspicious |-> FALSE,
                                         skipped |-> TRUE],
                                        [file |-> r.filePath, recording |-> FALSE])
       ELSE IF component = "part_009" /\ r.filePath \notin tempFiles
       THEN /\ detects' = detects (-) SetToBag({r})
            /\ filesBeingProcessed' = filesBeingProcessed \ {r.filePath}
            /\ lastResponse' = Response("detect", 404,
                                        [error |-> TRUE, trustScore |-> ErrorHandlerTrustScore,
                                         suspicious |-> FALSE],
                                        [file |-> r.filePath, recording |-> TRUE])
            /\ UNCHANGED tempFiles
       ELSE /\ detects' = Replace(detects, r, [r EXCEPT !.stage = "inference"])
            /\ filesBeingProcessed' = IF component = "part_009"
                                        THEN filesBeingProcessed \cup {r.filePath}
                                        ELSE filesBeingProcessed
            /\ UNCHANGED <<tempFiles, lastResponse>>
  /\ UNCHANGED <<captureVars, appVars, textVars, server_isRecording, server_detectionHistory,
                 server_suspiciousSegments, userDetectionHistory, userSuspiciousSegments,
                 deleting, server_now, serverBudget, toggles, users, segmentsSinceDelete,
                 cleanupScheduled>>

\* the handler up to its await: the not-recording answer, or the start of the inference
\* (in part_009 runPythonInference rejects at once when the file is not there)
DetectHandler(r) ==
  /\ r \in BagToSet(detects)
  /\ r.stage = "uploaded"
  /\ IF ~server_isRecording
       THEN /\ tempFiles' = tempFiles \ {r.filePath}
            /\ detects' = detects (-) SetToBag({r})
            /\ filesBeingProcessed' = filesBeingProcessed \ {r.filePath}
            /\ lastResponse' = Response("detect", 200,
                                        [trustScore |-> SkippedTrustScore, suspicious |-> FALSE,
                                         skipped |-> TRUE],
                                        [file |-> r.filePath, recording |-> FALSE])
       ELSE IF component = "part_009" /\ r.filePath \notin tempFiles
       THEN /\ detects' = detects (-) SetToBag({r})
            /\ filesBeingProcessed' = filesBeingProcessed \ {r.filePath}
            /\ lastResponse' = Response("detect", 404,
                                        [error |-> TRUE, trustScore |-> ErrorHandlerTrustScore,
                                         suspicious |-> FALSE],
                                        [file |-> r.filePath, recording |-> TRUE])
            /\ UNCHANGED tempFiles
       ELSE /\ detects' = Replace(detects, r, [r EXCEPT !.stage = "inference"])
            /\ filesBeingProcessed' = IF component = "part_009"
                                        THEN filesBeingProcessed \cup {r.filePath}
                                        ELSE filesBeingProcessed
            /\ UNCHANGED <<tempFiles, lastResponse>>
  /\ UNCHANGED <<captureVars, appVars, textVars, server_isRecording, server_detectionHistory,
                 server_suspiciousSegments, userDetectionHistory, userSuspiciousSegments,
                 deleting, server_now, serverBudget, toggles, users, segmentsSinceDelete,
                 cleanupScheduled>>

\* runPythonInference resolves: the rest of the try block
InferenceDone(r, trustScore, suspicious) ==
  /\ r \in BagToSet(detects)
  /\ r.stage = "inference"
  /\ LET segment == [id |-> server_now, timestamp |-> server_now, type |-> r.mediaType,
                     score |-> Round100(trustScore), filePath |-> r.filePath]
         detectionData == [trustScore |-> trustScore, suspicious |-> suspicious,
                           timestamp |-> server_now, mediaType |-> r.mediaType,
                           filePath |-> IF suspicious THEN r.filePath ELSE null]
         pushed == IF suspicious THEN Append(server_suspiciousSegments, segment)
                                 ELSE server_suspiciousSegments
         capped == component = "part_009" /\ Len(pushed) > ServerSegmentsKeep
         oldSegments == IF capped THEN SubSeq(pushed, 1, Len(pushed) - ServerSegmentsKeep)
                                  ELSE <<>>
         kept == IF suspicious THEN tempFiles ELSE tempFiles \ {r.filePath}
     IN /\ tempFiles' = kept \ {oldSegments[i].filePath : i \in 1..Len(oldSegments)}
        /\ server_detectionHistory' =
             SliceLast(Append(server_detectionHistory, detectionData), ServerHistoryKeep)
        /\ server_suspiciousSegments' =
             IF capped THEN SliceLast(pushed, ServerSegmentsKeep) ELSE pushed
        /\ segmentsSinceDelete' =
             IF suspicious THEN Append(segmentsSinceDelete, segment) ELSE segmentsSinceDelete
        /\ lastResponse' = Response("detect", 200,
                                    [trustScore |-> trustScore, suspicious |-> suspicious],
                                    [file |-> r.filePath, recording |-> TRUE])
  /\ detects' = detects (-) SetToBag({r})
  /\ filesBeingProcessed' = filesBeingProcessed \ {r.filePath}
  /\ UNCHANGED <<captureVars, appVars, textVars, server_isRecording, userDetectionHistory,
                 userSuspiciousSegments, deleting, server_now, serverBudget, toggles, users,
                 cleanupScheduled>>

\* runPythonInference rejects: the catch block
InferenceFails(r, trustScore, suspicious) ==
  /\ r \in BagToSet(detects)
  /\ r.stage = "inference"
  /\ tempFiles' = tempFiles \ {r.filePath}
  /\ detects' = detects (-) SetToBag({r})
  /\ filesBeingProcessed' = filesBeingProcessed \ {r.filePath}
  /\ lastResponse' = Response("detect", 500,
                              IF component = "part_009"
                                THEN [error |-> TRUE, trustScore |-> ErrorHandlerTrustScore,
                                      suspicious |-> FALSE]
                                ELSE [error |-> TRUE, trustScore |-> trustScore,
                                      suspicious |-> suspicious],
                              [file |-> r.filePath, recording |-> TRUE])
  /\ UNCHANGED <<captureVars, appVars, textVars, server_isRecording, server_detectionHistory,
                 server_suspiciousSegments, userDetectionHistory, userSuspiciousSegments,
                 deleting, server_now, serverBudget, toggles, users, segmentsSinceDelete,
                 cleanupScheduled>>

\* ---- GET / DELETE /api/suspicious
GetSuspicious(token) ==
  /\ lastResponse' =
       IF AuthStatus(token) # 200
         THEN Response("get-suspicious", AuthStatus(token), [error |-> TRUE], [token |-> token])
         ELSE Response("get-suspicious", 200,
                       [segments |-> IF component = "part_009"
                                       THEN userSuspiciousSegments[token]
                                       ELSE server_suspiciousSegments],
                       [token |-> token])
  /\ UNCHANGED <<captureVars, appVars, textVars, server_isRecording, server_detectionHistory,
                 server_suspiciousSegments, userDetectionHistory, userSuspiciousSegments,
                 filesBeingProcessed, tempFiles, detects, deleting, server_now, serverBudget,
                 toggles, users, segmentsSinceDelete, cleanupScheduled>>

\* part_009: the list of the token's user is reset
DeleteUserSuspicious(token) ==
  /\ component = "part_009"
  /\ IF AuthStatus(token) # 200
       THEN /\ lastResponse' = Response("delete-suspicious", AuthStatus(token),
                                        [error |-> TRUE], [token |-> token])
            /\ UNCHANGED <<userSuspiciousSegments, segmentsSinceDelete>>
       ELSE /\ userSuspiciousSegments' = [userSuspiciousSegments EXCEPT ![token] = <<>>]
            /\ segmentsSinceDelete' = <<>>
            /\ lastResponse' = Response("delete-suspicious", 200, [success |-> TRUE],
                                        [token |-> token])
  /\ UNCHANGED <<captureVars, appVars, textVars, server_isRecording, server_detectionHistory,
                 server_suspiciousSegments, userDetectionHistory, filesBeingProcessed,
                 tempFiles, detects, deleting, server_now, serverBudget, toggles, users,
                 cleanupScheduled>>

\* server/index.js: the handler starts the unlinks of the files of the segments
DeleteSuspiciousStart ==
  /\ component = "server/index.js"
  /\ deleting = null
  /\ deleting' = [segments |-> server_suspiciousSegments]
  /\ UNCHANGED <<captureVars, appVars, textVars, server_isRecording, server_detectionHistory,
                 server_suspiciousSegments, userDetectionHistory, userSuspiciousSegments,
                 filesBeingProcessed, tempFiles, detects, server_now, serverBudget, toggles, users,
                 segmentsSinceDelete, cleanupScheduled, lastResponse>>

\* server/index.js: Promise.all(deletePromises).then(...)
DeleteSuspiciousFinish ==
  /\ component = "server/index.js"
  /\ deleting # null
  /\ tempFiles' = tempFiles \ {deleting.segments[i].filePath : i \in 1..Len(deleting.segments)}
  /\ server_suspiciousSegments' = <<>>
  /\ segmentsSinceDelete' = <<>>
  /\ cleanupScheduled' = TRUE
  /\ deleting' = null
  /\ lastResponse' = Response("delete-suspicious", 200, [success |-> TRUE], [token |-> "none"])
  /\ UNCHANGED <<captureVars, appVars, textVars, server_isRecording, server_detectionHistory,
                 userDetectionHistory, userSuspiciousSegments, filesBeingProcessed, detects,
                 server_now, serverBudget, toggles, users>>

\* ---- POST /api/detect-text
\* the texts a revision refuses
TextRefused(t) ==
  IF component = "part_009" THEN TrimLen(t) = 0 \/ TrimLen(t) < MinTextLength
                            ELSE t.len = 0

PostDetectText(t, ok, trustScore) ==
  /\ lastResponse' =
       IF TextRefused(t)
         THEN Response("detect-text", 400, [error |-> TRUE], [text |-> t])
       ELSE IF ok
         THEN Response("detect-text", 200, [trustScore |-> trustScore], [text |-> t])
       ELSE Response("detect-text", 500,
                     [error |-> TRUE,
                      trustScore |-> IF component = "part_009" THEN ErrorHandlerTrustScore
                                                               ELSE trustScore],
                     [text |-> t])
  /\ UNCHANGED <<captureVars, appVars, textVars, server_isRecording, server_detectionHistory,
                 server_suspiciousSegments, userDetectionHistory, userSuspiciousSegments,
                 filesBeingProcessed, tempFiles, detects, deleting, server_now, serverBudget,
                 toggles, users, segmentsSinceDelete, cleanupScheduled>>

\* ---- POST /api/v1/analyze
PostAnalyze(token, t, ok, aiScore, isSuspectedAI) ==
  /\ serverBudget < MaxServerRequests
  /\ LET request == [token |-> token, text |-> t]
         accepted == /\ component = "part_009"
                     /\ AuthStatus(token) = 200
                     /\ TrimLen(t) >= MinAnalyzeLength
                     /\ ok
         alert == isSuspectedAI /\ aiScore > 700
     IN /\ lastResponse' =
             IF component # "part_009"
               THEN Response("analyze", 404, [error |-> TRUE], request)
             ELSE IF AuthStatus(token) # 200
               THEN Response("analyze", AuthStatus(token), [error |-> TRUE], request)
             ELSE IF TrimLen(t) < MinAnalyzeLength
               THEN Response("analyze", 400, [error |-> TRUE, aiScore |-> 0], request)
             ELSE IF ok
               THEN Response("analyze", 200,
                             [aiScore |-> aiScore, isSuspectedAI |-> isSuspectedAI], request)
             ELSE Response("analyze", 500,
                           [error |-> TRUE, aiScore |-> ErrorHandlerTrustScore], request)
        /\ IF accepted
             THEN /\ serverBudget' = serverBudget + 1
                  /\ userDetectionHistory' =
                       [userDetectionHistory EXCEPT ![token] =
                          SliceLast(Append(@, [aiScore |-> aiScore,
                                               isSuspectedAI |-> isSuspectedAI,
                                               timestamp |-> server_now]),
                                    ServerHistoryKeep)]
                  /\ userSuspiciousSegments' =
                       IF alert
                         THEN [userSuspiciousSegments EXCEPT ![token] =
                                 Append(@, [id |-> server_now, timestamp |-> server_now,
                                            aiScore |-> aiScore])]
                         ELSE userSuspiciousSegments
             ELSE UNCHANGED <<serverBudget, userDetectionHistory, userSuspiciousSegments>>
  /\ UNCHANGED <<captureVars, appVars, textVars, server_isRecording, server_detectionHistory,
                 server_suspiciousSegments, filesBeingProcessed, tempFiles, detects, deleting,
                 server_now, toggles, users, segmentsSinceDelete, cleanupScheduled>>

MimeTypes == {"video", "audio"}
\* what detect.py prints for an upload
InferenceResults == {[trustScore |-> 300, suspicious |-> TRUE],
                     [trustScore |-> 906, suspicious |-> FALSE]}

InitServer ==
  /\ component \in ServerRevisions
  /\ formatSupported = TRUE
  /\ CaptureInitialState
  /\ AppInitialState
  /\ TextInitialState
  /\ ServerInitialState

\* the upload, recording and evidence routes
NextServer ==
  \/ TimePasses
  \/ cleanupTempFiles
  \/ ToggleRecording
  \/ \E mediaType \in MimeTypes : UploadArrives(mediaType)
  \/ DetectWithoutFile
  \/ \E r \in BagToSet(detects) : DetectHandler(r)
  \/ \E r \in BagToSet(detects), result \in InferenceResults :
       InferenceDone(r, result.trustScore, result.suspicious)
  \/ \E r \in BagToSet(detects), trustScore \in ErrorTrustScores, suspicious \in BOOLEAN :
       InferenceFails(r, trustScore, suspicious)
  \/ \E token \in Tokens : GetSuspicious(token)
  \/ \E token \in Tokens : DeleteUserSuspicious(token)
  \/ DeleteSuspiciousStart
  \/ DeleteSuspiciousFinish

SpecServer == InitServer /\ [][NextServer]_vars

\* the request texts of /api/v1/analyze: both sides of its minimum and of the clients' one
AnalyzeTexts ==
  {t \in [len : {0, 2, MinAnalyzeLength - 1, MinAnalyzeLength, MinAnalyzeLength + 2, MinTextLength},
          pad : {0, 2}] : t.pad <= t.len}

\* the text routes
NextServerText ==
  \/ \E t \in Texts, ok \in BOOLEAN, trustScore \in TrustScores : PostDetectText(t, ok, trustScore)
  \/ \E token \in Tokens, t \in AnalyzeTexts, ok \in BOOLEAN, aiScore \in TrustScores,
        isSuspectedAI \in BOOLEAN : PostAnalyze(token, t, ok, aiScore, isSuspectedAI)

SpecServerText == InitServer /\ [][NextServerText]_vars

\* ================================================================ claims
Step(names) == lastOp' # lastOp /\ lastOp'.op \in names

\* the handlers that end in a stop call of the component
StopOps == {"unmount", "recorderError", "trackEnded"}

StopTouched == <<req, recorders, retryTimers, trackStopCalls, recorderStopCalls,
                 audioRecorderRef, audioStreamRef, audioRetryTimeoutRef, isAudioRecording,
                 audioError, hasStartedRef, mediaRecorderRef, streamRef,
                 screenRetryTimeoutRef, isRecording, screenError>>

\* C1: on every exit path (a failed start, a stop, the unmount, also an
\* unmount while the permission request is pending) no track the component
\* acquired is still live.
C1_ReleasedOnEveryExit ==
  (phase = "unmounted" \/ lastOp.op \in StopOps \cup {"startFailed"}) => LiveStreams = {}

\* C3: a stop call that directly follows a stop call changes nothing: it
\* stops no recorder and no track again, and every ref, flag and timer the
\* stop function touches keeps the value the first call left.
C3_StopIdempotent ==
  [][(lastOp.op \in StopOps /\ Step({"unmount"})) => UNCHANGED StopTouched]_vars

C3_Witness ==
  /\ lastOp.op = "unmount"
  /\ lastOp.prev \in {"recorderError", "trackEnded"}
  /\ \E i \in Attempts : trackStopCalls[i] = 1 /\ recorderStopCalls[i] = 1

\* C7: while the component is mounted, every non-empty chunk a recording
\* recorder emits is POSTed to the detect endpoint.
C7_EveryChunkUploaded ==
  [][(Step({"chunk"}) /\ phase = "mounted") => posts' = posts + 1]_vars

\* C8: a capture component never holds more than one live stream nor more
\* than one recording recorder.
C8_AtMostOneStreamAndRecorder ==
  /\ Cardinality(LiveStreams) <= 1
  /\ Cardinality(ActiveRecorders) <= 1

\* C9 as claimed: a failed acquisition halts the session, no further start
\* attempt is scheduled.
C9_FailureHalts ==
  [][Step({"startFailed"}) => (retryTimers' = {} /\ PendingRequests' = {})]_vars

\* C9 as amended: a failed acquisition sets the error message; the audio
\* capture schedules a retry whenever it is still mounted, whatever the
\* failure; the screen capture schedules a retry unless the failure is
\* NotAllowedError or AbortError, and then schedules nothing and is free to
\* be started again (hasStartedRef is false).
C9_FailureRetryPolicy ==
  [][Step({"startFailed"}) =>
       /\ component = "MediaCapture" =>
            /\ audioError' # ""
            /\ retryTimers' = IF isComponentMounted THEN retryTimers \cup {lastOp'.att}
                                                    ELSE retryTimers
       /\ component = "ScreenCapture" =>
            /\ screenError' # ""
            /\ hasStartedRef' = FALSE
            /\ retryTimers' = IF lastOp'.err \in {"NotAllowedError", "AbortError"}
                                THEN retryTimers
                                ELSE retryTimers \cup {lastOp'.att}]_vars

C9_Witness ==
  \/ /\ component = "MediaCapture"
     /\ lastOp.op = "startFailed"
     /\ lastOp.err = "NotAllowedError"
     /\ lastOp.att \in retryTimers
  \/ /\ component = "ScreenCapture"
     /\ lastOp.op = "startFailed"
     /\ lastOp.err = "NotAllowedError"
     /\ retryTimers = {}

\* C10 as claimed: whenever the stream ends unexpectedly on a mounted
\* component (track ended, recorder error, screen share ended by the user) a
\* restart is scheduled.
C10_EndedRestarts ==
  [][(Step({"recorderError", "trackEnded"}) /\ phase = "mounted") =>
       restartTimers' = restartTimers + 1]_vars

\* C10 as amended: a recorder error (audio or screen) and an ended audio
\* track stop the capture and schedule one restart (audio: only while
\* mounted); when the restart timer fires a new request is issued (audio:
\* while mounted; screen: unless a start is already under way); the user
\* ending the screen share only stops the capture, no restart is scheduled.
C10_RestartPolicy ==
  [][/\ (Step({"recorderError", "trackEnded"}) /\ component = "MediaCapture") =>
          /\ audioStreamRef' = 0 /\ audioRecorderRef' = 0
          /\ req'[lastOp'.att] = "ended" /\ recorders'[lastOp'.att] = "inactive"
          /\ restartTimers' = restartTimers + (IF isComponentMounted THEN 1 ELSE 0)
     /\ (Step({"recorderError"}) /\ component = "ScreenCapture") =>
          /\ streamRef' = 0 /\ mediaRecorderRef' = 0
          /\ recorders'[lastOp'.att] = "inactive"
          /\ restartTimers' = restartTimers + 1
     /\ (Step({"trackEnded"}) /\ component = "ScreenCapture") =>
          /\ streamRef' = 0 /\ mediaRecorderRef' = 0
          /\ req'[lastOp'.att] = "ended"
          /\ restartTimers' = restartTimers
     /\ Step({"restartTimer"}) =>
          /\ restartTimers' = restartTimers - 1
          /\ (component = "MediaCapture" /\ isComponentMounted) =>
               PendingRequests' = PendingRequests \cup {NextAttempt}
          /\ (component = "ScreenCapture" /\ ~hasStartedRef) =>
               PendingRequests' = PendingRequests \cup {NextAttempt}]_vars

C10_Witness ==
  /\ lastOp.op = "restartTimer"
  /\ lastOp.prev \in {"recorderError", "trackEnded"}
  /\ PendingRequests # {}

\* an upload gets its response (a result or a failure)
UploadCompletes == \E u \in BagToSet(uploads) : uploads' = uploads (-) SetToBag({u})

\* C2: once handleToggleDetection has set isActive to false, the response of an
\* upload that started before the stop changes neither currentData nor
\* detectionHistory nor the current session, whatever the upload's kind.
C2_NoMutationAfterStop ==
  [][(~isActive /\ UploadCompletes)
       => UNCHANGED <<currentData, detectionHistory, currentSession>>]_vars

\* C4: when a session is stopped after handleDetectionResult took n > 0 results,
\* its avgTrustScore is the arithmetic mean of their n rounded percentages.
C4_FinalAverageIsMean ==
  [][(isActive /\ ~isActive' /\ handled.count > 0)
       => currentSession.avgTrustScore.num * handled.count
            = handled.sum * currentSession.avgTrustScore.den]_vars

\* C5: while a session is active, detectionCount is the number of results
\* handleDetectionResult took in it and suspiciousCount the number of those
\* flagged suspicious, and neither counter ever decreases within the session.
C5_CountsExactAndMonotone ==
  [][(isActive' /\ currentSession' # null)
       => /\ currentSession'.detectionCount = handled'.count
          /\ currentSession'.suspiciousCount = handled'.suspicious
          /\ (isActive /\ currentSession # null
                /\ currentSession.startTime = currentSession'.startTime)
               => /\ currentSession'.detectionCount >= currentSession.detectionCount
                  /\ currentSession'.suspiciousCount >= currentSession.suspiciousCount]_vars

\* C6: the verdict saved with a session depends on (avgTrustScore, suspiciousCount,
\* detectionCount) alone, detectionCount > 0: 'AI Generated' exactly when the
\* average is below 50 or suspiciousCount/detectionCount exceeds 0.3, otherwise
\* 'Likely Human' exactly when the average exceeds 75 and the ratio is below 0.1,
\* otherwise 'Inconclusive'; (40,4,10), (80,0,10), (60,1,10) give the three in turn.
C6_VerdictThresholds ==
  \A k \in 1..Len(pastSessions) :
    LET s == pastSessions[k]
        avg == s.avgTrustScore
        ai == avg.num < 50 * avg.den \/ 10 * s.suspiciousCount > 3 * s.detectionCount
        human == avg.num > 75 * avg.den /\ 10 * s.suspiciousCount < s.detectionCount
        is(a, k1, d) == avg.num = a * avg.den /\ s.suspiciousCount = k1 /\ s.detectionCount = d
    IN  /\ s.detectionCount > 0
        /\ (s.overallVerdict = "AI Generated") <=> ai
        /\ (s.overallVerdict = "Likely Human") <=> (~ai /\ human)
        /\ (s.overallVerdict = "Inconclusive") <=> (~ai /\ ~human)
        /\ is(40, 4, 10) => s.overallVerdict = "AI Generated"
        /\ is(80, 0, 10) => s.overallVerdict = "Likely Human"
        /\ is(60, 1, 10) => s.overallVerdict = "Inconclusive"

\* the session (60, 1, 10) has been saved, as 'Inconclusive'
C6_Witness ==
  /\ Len(pastSessions) = 1
  /\ pastSessions[1].avgTrustScore = Frac(60, 1)
  /\ pastSessions[1].suspiciousCount = 1
  /\ pastSessions[1].detectionCount = 10
  /\ pastSessions[1].overallVerdict = "Inconclusive"

\* the response of some upload arrives with a status that is not 2xx
ErrorResponseStep ==
  \E u \in BagToSet(uploads), t \in ErrorTrustScores, suspicious \in BOOLEAN :
    ErrorResponseArrives(u, t, suspicious)

\* C11: a response with a non-2xx status fails its upload: handleDetectionResult
\* is not called for its body, so the aggregate (currentData, detectionHistory,
\* suspiciousSegments, currentSession) stays as it is, on every upload path.
C11_ErrorBodyNotAggregated ==
  [][ErrorResponseStep
       => UNCHANGED <<currentData, detectionHistory, suspiciousSegments, currentSession>>]_vars

\* a client's submit handler runs on a text that is not empty and whose
\* trimmed length is below the minimum
ShortSubmission ==
  /\ Step({"analyze"})
  /\ 0 < TrimLen(text) /\ TrimLen(text) < MinTextLength

\* C12 (as stated): a submission shorter than 50 characters is rejected with a
\* validation error, before any analysis or request, and yields no result.
C12_ShortTextRejectedWithError ==
  [][ShortSubmission
       => /\ textError' # ""
          /\ UNCHANGED <<isAnalyzing, textRequests, textResult, lastAnalysed>>]_vars

\* C12 (amended): no client analyses, sends or stores a result for a text whose
\* trimmed length is below 50; on such a submission TextAnalyzer and
\* TestResponseDetector set an error message, the extension skips it silently.
C12_ShortTextNeverAnalysed ==
  [][/\ lastAnalysed' # NoResult => TrimLen(lastAnalysed') >= MinTextLength
     /\ textResult' # NoResult => TrimLen(textResult'.text) >= MinTextLength
     /\ \A t \in BagToSet(textRequests') : TrimLen(t) >= MinTextLength
     /\ ShortSubmission
          => /\ UNCHANGED <<isAnalyzing, textRequests, textResult, lastAnalysed>>
             /\ (component = "extension") <=> (textError' = "")]_vars

\* handleAnalyze has run on a text that passes the button's raw length test,
\* is too short once trimmed, and was refused with the error message
C12_Witness ==
  /\ component = "TextAnalyzer"
  /\ lastOp.op = "analyze"
  /\ text.len >= MinTextLength /\ 0 < TrimLen(text) /\ TrimLen(text) < MinTextLength
  /\ textError = "Please enter at least 50 characters for accurate analysis"
  /\ ~isAnalyzing

\* a response of POST /api/detect-text to a text of fewer than 50 characters
ShortDetectText ==
  /\ lastResponse.route = "detect-text"
  /\ lastResponse.request.text.len < MinTextLength

\* C13: POST /api/detect-text with a text shorter than 50 characters is answered
\* with a 4xx status and a body without a trust score
C13_ShortTextRejectedByServer ==
  ShortDetectText =>
    /\ lastResponse.status \in 400..499
    /\ "trustScore" \notin DOMAIN lastResponse.body

\* C14: detectionHistory never holds more than 50 entries, its entries are in
\* arrival order, and handling a result appends it last, dropping the oldest
\* entry when 50 are held
C14_HistoryKeepsMostRecent ==
  /\ [](/\ Len(detectionHistory) <= 50
        /\ \A i, j \in 1..Len(detectionHistory) :
             i < j => detectionHistory[i].timestamp < detectionHistory[j].timestamp)
  /\ [][HistoryResult =>
          /\ currentData'.timestamp = clock'
          /\ detectionHistory' =
               (IF Len(detectionHistory) >= 50 THEN Tail(detectionHistory)
                                               ELSE detectionHistory)
               \o <<currentData'>>]_vars

\* a full history whose oldest results have been dropped
C14_Witness ==
  /\ Len(detectionHistory) = 50
  /\ handled.count > 50
  /\ detectionHistory[50] = currentData

\* the startTime of the stored sessions, and the most recently finalized sessions
StoredStartTimes == {localStorage[k].startTime : k \in 1..Len(localStorage)}
RecentlyFinalized ==
  LET recent == SliceLast(finalized, 10) IN {recent[i] : i \in 1..Len(recent)}

\* C15: the stored list of past sessions never holds more than 10 sessions, and
\* when the summary is shown for a stopped detection it holds the most recently
\* finalized sessions
C15_StoredSessionsMostRecent ==
  /\ Len(localStorage) <= 10
  /\ Len(pastSessions) <= 10
  /\ (activeTab = "summary" /\ ~isActive) => RecentlyFinalized \subseteq StoredStartTimes

\* the sessions stopped with at least one detection
Finalized == {finalized[i] : i \in 1..Len(finalized)}

\* C16: a session stopped with at least one detection is not stored twice, and a
\* step that stores a session keeps the sessions stored before it, up to the 9
\* most recent
C16_SessionStoredOnceKeepingPrevious ==
  /\ [](\A j, k \in 1..Len(localStorage) :
          /\ localStorage[j].startTime \in Finalized
          /\ localStorage[j].startTime = localStorage[k].startTime
          => j = k)
  /\ [][localStorage' # localStorage =>
          \E newSession \in {localStorage'[Len(localStorage')]} :
            localStorage' = SliceLast(localStorage, 9) \o <<newSession>>]_vars

\* a handler takes a result with suspicious == true
SuspiciousResultStep ==
  \/ \E u \in BagToSet(uploads), t \in TrustScores : ResultArrives(u, t, TRUE)
  \/ \E u \in BagToSet(uploads), t \in ErrorTrustScores : ErrorResponseArrives(u, t, TRUE)
  \/ \E type \in {"video", "text"}, t \in TrustScores : AnalysisComplete(type, t, TRUE)

\* C17: suspiciousSegments grows only by one entry appended by a result with
\* suspicious == true, shrinks only to the empty list by clearSuspiciousSegments,
\* and is left unchanged by starting and stopping detection
C17_EvidenceAppendOnlyClearable ==
  [][/\ Len(suspiciousSegments') > Len(suspiciousSegments) =>
          /\ SuspiciousResultStep
          /\ Len(suspiciousSegments') = Len(suspiciousSegments) + 1
          /\ SubSeq(suspiciousSegments', 1, Len(suspiciousSegments)) = suspiciousSegments
     /\ (suspiciousSegments' # suspiciousSegments
           /\ Len(suspiciousSegments') <= Len(suspiciousSegments)) =>
          /\ clearSuspiciousSegments
          /\ suspiciousSegments' = <<>>
     /\ (StartDetection \/ StopDetection) => UNCHANGED suspiciousSegments]_vars

\* detection was stopped with evidence in the list, taken from a capture result
\* and from an analyzer
C17_Witness ==
  /\ ~isActive
  /\ currentSession # null
  /\ Len(suspiciousSegments) >= 2
  /\ \E i, j \in 1..Len(suspiciousSegments) :
       suspiciousSegments[i].type = "text" /\ suspiciousSegments[j].type = "audio"

\* a response of POST /api/v1/analyze, in the revision that serves the route, to a
\* request without an Authorization header whose text has the length the clients
\* require
DocumentedAnalyzeRequest ==
  /\ component = "part_009"
  /\ lastResponse.route = "analyze"
  /\ lastResponse.request.token = "none"
  /\ TrimLen(lastResponse.request.text) >= MinTextLength

\* C18: a POST to /api/v1/analyze with the Content-Type header only and a text of
\* sufficient length is not refused: its status is no 4xx, so the response.ok
\* test of the extension passes whenever the analysis itself succeeds
C18_DocumentedAnalyzeAccepted ==
  DocumentedAnalyzeRequest => lastResponse.status \notin 400..499

\* GET /api/suspicious is answered
GetSuspiciousStep == \E token \in Tokens : GetSuspicious(token)

\* C19: an accepted GET /api/suspicious returns the segments of the suspicious
\* /api/detect results since the last DELETE /api/suspicious, the most recent 50
\* of them, hence the empty list directly after a DELETE
C19_SuspiciousListsDetectSegments ==
  [][(GetSuspiciousStep /\ lastResponse'.status = 200) =>
       lastResponse'.body.segments = SliceLast(segmentsSinceDelete, ServerSegmentsKeep)]_vars

\* C20 as stated: in a step taken while the recording flag is off nothing is added
\* to detectionHistory or suspiciousSegments
C20_NothingRecordedWhileOff ==
  [][~server_isRecording =>
       UNCHANGED <<server_detectionHistory, server_suspiciousSegments>>]_vars

\* C20: the recording flag is off exactly after an odd number of toggles, and a
\* POST /api/detect whose handler runs while it is off starts no inference and adds
\* nothing to detectionHistory or suspiciousSegments: its file is deleted and its
\* answer is marked skipped
C20_SkippedWhenHandledWhileOff ==
  /\ [](server_isRecording <=> toggles % 2 = 0)
  /\ [][\A r \in BagToSet(detects) :
          (DetectHandler(r) /\ ~server_isRecording) =>
            /\ lastResponse'.route = "detect"
            /\ lastResponse'.status = 200
            /\ "skipped" \in DOMAIN lastResponse'.body
            /\ lastResponse'.request.file = r.filePath
            /\ r.filePath \notin tempFiles'
            /\ detects' = detects (-) SetToBag({r})
            /\ UNCHANGED <<server_detectionHistory, server_suspiciousSegments>>]_vars

\* an upload was answered as skipped after one toggle
C20_Witness ==
  /\ toggles = 1
  /\ ~server_isRecording
  /\ lastResponse.route = "detect"
  /\ "skipped" \in DOMAIN lastResponse.body

\* the files of the POST /api/detect requests between upload and response
OwnedFiles == {r.filePath : r \in BagToSet(detects)}

\* C21: a run of cleanupTempFiles deletes no file of a POST /api/detect request
\* that is between its upload and the end of its inference
C21_CleanupSparesFilesInProcess ==
  [][cleanupTempFiles => (OwnedFiles \cap tempFiles) \subseteq tempFiles']_vars

\* runPythonInference resolves for one of the requests
InferenceDoneStep(r, suspicious) ==
  \E trustScore \in TrustScores : InferenceDone(r, trustScore, suspicious)

\* C22: the file of a non-suspicious result is gone when its request completes,
\* and the file of an entry of suspiciousSegments stays in the temp directory as
\* long as the entry is in the list
C22_OnlySuspiciousFilesKept ==
  /\ [][\A i \in 1..Len(server_suspiciousSegments) :
          LET segment == server_suspiciousSegments[i]
          IN  (/\ segment.filePath \in tempFiles
               /\ \E j \in 1..Len(server_suspiciousSegments') :
                    server_suspiciousSegments'[j] = segment)
              => segment.filePath \in tempFiles']_vars
  /\ [][\A r \in BagToSet(detects) :
          InferenceDoneStep(r, FALSE) => r.filePath \notin tempFiles']_vars

\* ======================================================= accounts (part_009)
\* POST /api/auth/register with all three fields
Register(email) ==
  /\ component = "part_009"
  /\ IF email \in DOMAIN users
       THEN /\ lastResponse' = Response("register", 400, [error |-> TRUE], [email |-> email])
            /\ UNCHANGED <<users, userDetectionHistory, userSuspiciousSegments>>
       ELSE LET userId == UserId(server_now)
            IN  /\ users' = [e \in DOMAIN users \cup {email} |->
                               IF e = email THEN userId ELSE users[e]]
                /\ userDetectionHistory' = [userDetectionHistory EXCEPT ![userId] = <<>>]
                /\ userSuspiciousSegments' = [userSuspiciousSegments EXCEPT ![userId] = <<>>]
                /\ lastResponse' = Response("register", 200, [token |-> userId, id |-> userId],
                                            [email |-> email])
  /\ UNCHANGED <<captureVars, appVars, textVars, server_isRecording, server_detectionHistory,
                 server_suspiciousSegments, filesBeingProcessed, tempFiles, detects, deleting,
                 server_now, serverBudget, toggles, segmentsSinceDelete, cleanupScheduled>>

\* GET /api/history
GetHistory(token) ==
  /\ component = "part_009"
  /\ lastResponse' =
       IF AuthStatus(token) # 200
         THEN Response("history", AuthStatus(token), [error |-> TRUE], [token |-> token])
         ELSE Response("history", 200,
                       [history |-> SliceLast(userDetectionHistory[token], 50)],
                       [token |-> token])
  /\ UNCHANGED <<captureVars, appVars, textVars, server_isRecording, server_detectionHistory,
                 server_suspiciousSegments, filesBeingProcessed, tempFiles, detects, deleting,
                 server_now, serverBudget, toggles, segmentsSinceDelete, cleanupScheduled, users,
                 userDetectionHistory, userSuspiciousSegments>>

\* the requests made with the token of the account registered under email
AccountAnalyze(email, aiScore, isSuspectedAI) ==
  /\ email \in DOMAIN users
  /\ PostAnalyze(users[email], [len |-> MinTextLength, pad |-> 0], TRUE, aiScore, isSuspectedAI)

AccountGetHistory(email) == email \in DOMAIN users /\ GetHistory(users[email])

AccountGetSuspicious(email) == email \in DOMAIN users /\ GetSuspicious(users[email])

AccountDeleteSuspicious(email) ==
  email \in DOMAIN users /\ DeleteUserSuspicious(users[email])

AccountRequest(email) ==
  \/ \E aiScore \in TrustScores, isSuspectedAI \in BOOLEAN :
       AccountAnalyze(email, aiScore, isSuspectedAI)
  \/ AccountGetHistory(email)
  \/ AccountGetSuspicious(email)
  \/ AccountDeleteSuspicious(email)

NextAccounts ==
  \/ TimePasses
  \/ \E email \in Emails : Register(email)
  \/ \E email \in Emails, aiScore \in TrustScores, isSuspectedAI \in BOOLEAN :
       AccountAnalyze(email, aiScore, isSuspectedAI)
  \/ \E email \in Emails : AccountGetHistory(email)
  \/ \E email \in Emails : AccountGetSuspicious(email)
  \/ \E email \in Emails : AccountDeleteSuspicious(email)

InitAccounts ==
  /\ component = "part_009"
  /\ formatSupported = TRUE
  /\ CaptureInitialState
  /\ AppInitialState
  /\ TextInitialState
  /\ ServerInitialState

SpecAccounts == InitAccounts /\ [][NextAccounts]_vars

\* ================================================ the dashboard with its backend
\* the POST /api/toggle-recording of a stop reaches the server
ToggleRequestArrives ==
  /\ toggleRequests > 0
  /\ toggleRequests' = toggleRequests - 1
  /\ toggles' = toggles + 1
  /\ server_isRecording' = ~server_isRecording
  /\ cleanupScheduled' = (cleanupScheduled \/ server_isRecording)
  /\ lastResponse' = Response("toggle-recording", 200,
                              [isRecording |-> ~server_isRecording], [n |-> toggles + 1])
  /\ UNCHANGED <<captureVars, textVars, appStateVars, pastSessions, summaryVars, captureProps,
                 uploads, permissionQuery, healthVars, saveEffectPending, clock, uploadsStarted, handled,
                 server_detectionHistory, server_suspiciousSegments, userDetectionHistory,
                 userSuspiciousSegments, filesBeingProcessed, tempFiles, detects, deleting,
                 server_now, serverBudget, users, segmentsSinceDelete>>

\* the fetch of a stop rejects: the catch block logs the error
ToggleRequestFails ==
  /\ toggleRequests > 0
  /\ toggleRequests' = toggleRequests - 1
  /\ UNCHANGED <<captureVars, textVars, serverVars, appStateVars, pastSessions, summaryVars,
                 captureProps, uploads, permissionQuery, healthVars, saveEffectPending, clock,
                 uploadsStarted, handled>>

NextMonitoring ==
  \/ \E granted \in BOOLEAN : CheckExistingPermissions(granted)
  \/ StartDetection
  \/ StopDetection
  \/ HealthCheckOk
  \/ \E kind \in UploadKinds : UploadStart(kind)
  \/ \E u \in BagToSet(uploads), t \in TrustScores, suspicious \in BOOLEAN :
       ResultArrives(u, t, suspicious)
  \/ \E u \in BagToSet(uploads) : UploadFails(u)
  \/ ToggleRequestArrives
  \/ ToggleRequestFails
  \/ cleanupTempFiles

SpecMonitoring == InitServer /\ [][NextMonitoring]_vars

\* C24: while the dashboard is monitoring the recording flag of the backend is on
C24_RecordingWhileMonitoring == isActive => server_isRecording

\* C23: in every state of the dashboard overallScore is the rounded mean of the
\* video and audio scores of currentData
C23_OverallScoreIsRoundedMean ==
  currentData.overallScore = RoundHalf(currentData.videoScore + currentData.audioScore)

\* the Preliminary Verdict text of the Current Session panel of SessionSummary
PreliminaryVerdict(session) ==
  LET suspiciousRatio == Frac(session.suspiciousCount, session.detectionCount)
  IN  IF /\ FracLess(Frac(70, 1), session.avgTrustScore)
         /\ FracLess(suspiciousRatio, Frac(1, 10))
      THEN "Likely Human"
      ELSE IF \/ FracLess(session.avgTrustScore, Frac(50, 1))
              \/ FracLess(Frac(3, 10), suspiciousRatio)
           THEN "AI Generated"
           ELSE "Inconclusive"

\* C25: the preliminary verdict shown for an active session with detections is the
\* verdict the save effect gives a session of the same average and counts
C25_PreliminaryVerdictIsFinalVerdict ==
  (isActive /\ currentSession # null /\ currentSession.detectionCount > 0)
    => PreliminaryVerdict(currentSession) = NewSession(currentSession, clock).overallVerdict

\* the uploads of the capture component (sendToBackend) without a response yet
CaptureUploadsInFlight == {u \in BagToSet(uploads) : u.path = "media"}

\* C26: isProcessing is true exactly while an upload of the capture component is
\* in flight
C26_ProcessingIffUploadInFlight == isProcessing <=> (CaptureUploadsInFlight # {})

\* the backend answers no health check in this step
NoHealthSuccess == \A c \in ClosureValues : ~checkBackendOk(c)

\* C27: the checks that fail in a row are the first one and at most maxRetries
\* retries; once 'offline', the status stays 'offline' and no retry timer is armed
\* while no check succeeds; a check that succeeds sets 'online' and the counter to 0
C27_OfflineAfterMaxRetries ==
  /\ [](connectionRetries <= maxRetries + 1)
  /\ [][(backendStatus = "offline" /\ NoHealthSuccess)
          => /\ backendStatus' = "offline"
             /\ \A c \in ClosureValues :
                  CopiesIn(c, healthTimers') <= CopiesIn(c, healthTimers)]_vars
  /\ [][\A c \in ClosureValues :
          checkBackendOk(c) => (backendStatus' = "online" /\ connectionRetries' = 0)]_vars

\* a /api/detect request ends in this step
RequestEnds == BagCardinality(detects') < BagCardinality(detects)

\* C28: the requests between upload and response have temp file paths of their own,
\* and the step that ends one of them leaves the files of the others in place
C28_OverlappingUploadsDistinctPaths ==
  /\ [](BagCardinality(detects) = Cardinality(OwnedFiles))
  /\ [][RequestEnds =>
          \A r \in BagToSet(detects') :
            r.filePath \in tempFiles => r.filePath \in tempFiles']_vars

\* the history and the suspicious segments the routes return for the account
AccountData(email, history, segments) == <<history[users[email]], segments[users[email]]>>

\* C29: accounts registered under different emails have different userIds, and a
\* request made with the token of one of them leaves the history and the suspicious
\* segments of the other as they are
C29_AccountsIsolated ==
  /\ [](\A e1, e2 \in DOMAIN users : e1 # e2 => users[e1] # users[e2])
  /\ [][\A e1, e2 \in DOMAIN users :
          (e1 # e2 /\ AccountRequest(e1))
            => AccountData(e2, userDetectionHistory', userSuspiciousSegments')
                 = AccountData(e2, userDetectionHistory, userSuspiciousSegments)]_vars

\* the content script sends a text to the analysis API in this step
TextSent == BagCardinality(textRequests') > BagCardinality(textRequests)

\* C30: while the switch of the popup is off the content script sends no text
C30_NoTextSentWhileSwitchedOff ==
  [][(component = "extension" /\ ~aiDetectionEnabled) => ~TextSent]_vars

====
